---- MODULE Spec2Model ----
(***************************************************************************)
(* Haplotype-thread extraction of `vg index` (src/subcommand/index_main.cpp *)
(* lines 414-422 and 536-1027): phased genotype calls of a VCF contig are   *)
(* turned, batch of samples by batch of samples, into per-phase node walks  *)
(* ("threads") that are handed to a sink.                                   *)
(*                                                                         *)
(* The program is sequential and, for given inputs, deterministic.  The     *)
(* inputs (graph edges, alt paths, variant records with their genotype      *)
(* strings, batch size, sample range, overlap flag) are drawn in Init and   *)
(* never change.  Every action is one piece of the code's control flow,     *)
(* selected by pc.                                                          *)
(***************************************************************************)
EXTENDS Integers, Sequences, FiniteSets, TLC

VARIABLES
    \* ---- inputs, fixed by Init ----
    variant_file,            \* the records of the contig, in position order
    alt_paths,               \* <<variant name, allele number>> -> Path (sequence of mappings)
    edges,                   \* the graph's edges, as pairs of gbwt nodes
    samples_in_batch,        \* option -B
    range_first, range_last, \* option -R X..Y (both inclusive, as typed)
    discard_overlaps,        \* option -o
    gbwt_name,               \* option -G: TRUE when a name is given
    binary_haplotype_output, \* option -H: TRUE when a name is given
    \* ---- program state ----
    pc,
    sample_range,            \* <<first, second>>, semi-open
    batch_start, batch_limit, first_phase,
    active_phase_threads, saved_phase_paths, active_phases, diploid_region,
    nonvariant_starts,
    all_phase_threads,       \* the sink
    thread_names,
    gbwt_builder,            \* the threads inserted into the GBWT builder
    binary_file,             \* the nodes written to the binary file
    xg_threads, xg_thread_names, haplotype_count,   \* what the xg index was given
    node_length,             \* NodeLengthBuffer::buffer, the slots written so far
    next_record,             \* position of the VCF reader in variant_file
    variants_processed,
    sample_number, phase_offset, alt_index,
    \* ---- history ----
    entry,                   \* the per-phase state when the current sample's genotype was read
    runs,                    \* what the earlier runs on the same inputs handed to the sink
    batches,                 \* the batches begun so far: their samples, what was out before
    at_variant,              \* the cursors when the current record was taken
    appended                 \* per phase of the batch, the node visits appended to it so far

inputs == <<variant_file, alt_paths, edges, samples_in_batch, range_first, range_last,
            discard_overlaps, gbwt_name, binary_haplotype_output>>
batch_state == <<active_phase_threads, saved_phase_paths, active_phases, diploid_region,
                 nonvariant_starts, appended>>
output == <<all_phase_threads, thread_names, gbwt_builder, binary_file, xg_threads,
            xg_thread_names, haplotype_count>>
control == <<pc, sample_range, batch_start, batch_limit, first_phase, next_record,
             variants_processed, sample_number, phase_offset, alt_index>>
history == <<entry, runs, batches, at_variant>>
vars == <<inputs, batch_state, output, control, node_length, history>>

(***************************************************************************)
(* Bounds of the model.                                                     *)
(***************************************************************************)
NumSamples == 3
MaxBatch == 2
Samples == 0 .. NumSamples - 1

Min(a, b) == IF a < b THEN a ELSE b
Max(a, b) == IF a > b THEN a ELSE b

(***************************************************************************)
(* gbwt nodes: an oriented node visit packed into one integer.              *)
(***************************************************************************)
Encode(id, rev) == 2 * id + (IF rev THEN 1 ELSE 0)
NodeId(node) == node \div 2
IsReverse(node) == node % 2 = 1

gbwt_to_thread_mapping(node) == [node_id |-> NodeId(node), is_reverse |-> IsReverse(node)]
mapping_to_gbwt(mapping) == Encode(mapping.node_id, mapping.is_reverse)
node_side_to_gbwt(side) == Encode(side.node, side.is_end)

(***************************************************************************)
(* The contig: one reference path of five forward nodes covering [0, 10).   *)
(* Nodes 253 and 504 share their NodeLengthBuffer slot with node 2; node    *)
(* 504 is on no path and has no edge, and is longer than the other two.     *)
(***************************************************************************)
path_name == "x"
sample_names == [s \in Samples |-> s]

IndexNodeLength == (1 :> 3) @@ (2 :> 1) @@ (3 :> 2) @@ (253 :> 1) @@ (5 :> 3)
                   @@ (6 :> 1) @@ (7 :> 1) @@ (8 :> 2) @@ (9 :> 1) @@ (10 :> 1) @@ (11 :> 3)
                   @@ (504 :> 2)

RefNodes == <<1, 2, 3, 253, 5>>

RECURSIVE SumLengths(_)
SumLengths(ids) ==
    IF ids = <<>> THEN 0 ELSE IndexNodeLength[Head(ids)] + SumLengths(Tail(ids))

\* PathIndex::by_start, as the sequence of its (start, side) entries
by_start == [i \in 1 .. Len(RefNodes) |->
                [start |-> SumLengths(SubSeq(RefNodes, 1, i - 1)),
                 side |-> [node |-> RefNodes[i], is_end |-> FALSE]]]
\* PathIndex::by_id: node id -> (start, orientation)
by_id == [id \in {RefNodes[i] : i \in 1 .. Len(RefNodes)} |->
             LET i == CHOOSE j \in 1 .. Len(RefNodes) : RefNodes[j] = id
             IN [first |-> by_start[i].start, second |-> by_start[i].side.is_end]]
path_length == SumLengths(RefNodes)
PathEnd == Len(by_start) + 1

\* PathIndex::find_position: the visit that covers the position; end() past the path
find_position(position) ==
    IF position >= path_length THEN PathEnd
    ELSE CHOOSE i \in 1 .. Len(by_start) :
            /\ by_start[i].start <= position
            /\ position < by_start[i].start + IndexNodeLength[by_start[i].side.node]
\* PathIndex::node_length(iterator)
path_node_length(it) ==
    (IF it + 1 = PathEnd THEN path_length ELSE by_start[it + 1].start) - by_start[it].start

(***************************************************************************)
(* xg::XG graph queries.                                                    *)
(***************************************************************************)
Flip(node) == Encode(NodeId(node), ~IsReverse(node))
\* has_edge(make_edge(from, from_rev, to, to_rev)): the edge or its reverse complement
has_edge(E, prev, next) == <<prev, next>> \in E \/ <<Flip(next), Flip(prev)>> \in E
\* the edges on the start side of a node, each as a record with from and to ids
edges_on_start(E, id) ==
    {[from |-> NodeId(e[1]), to |-> NodeId(e[2])] :
        e \in {x \in E : x[2] = Encode(id, FALSE) \/ x[1] = Encode(id, TRUE)}}
edges_on_end(E, id) ==
    {[from |-> NodeId(e[1]), to |-> NodeId(e[2])] :
        e \in {x \in E : x[1] = Encode(id, FALSE) \/ x[2] = Encode(id, TRUE)}}

(***************************************************************************)
(* NodeLengthBuffer: a direct-mapped cache of node lengths.  Only the slots *)
(* written so far are kept; every other slot holds the initial (-1, 0).     *)
(***************************************************************************)
BUFFER_SIZE == 251

BufferEntry(buffer, h) == IF h \in DOMAIN buffer THEN buffer[h] ELSE [first |-> -1, second |-> 0]

\* the node-length cache that returns whatever its slot holds
NodeLengthBuffer_slot_only(buffer, id) ==
    LET h == id % BUFFER_SIZE
        filled == IF h \notin DOMAIN buffer
                  THEN [x \in DOMAIN buffer \cup {h} |->
                           IF x = h THEN [first |-> id, second |-> IndexNodeLength[id]]
                           ELSE buffer[x]]
                  ELSE buffer
    IN [buffer |-> filled, length |-> BufferEntry(filled, h).second]

\* NodeLengthBuffer::operator(): the buffer after the lookup, and the length returned
NodeLengthBuffer(buffer, id) ==
    LET h == id % BUFFER_SIZE
        filled == IF BufferEntry(buffer, h).first # id
                  THEN [x \in DOMAIN buffer \cup {h} |->
                           IF x = h THEN [first |-> id, second |-> IndexNodeLength[id]]
                           ELSE buffer[x]]
                  ELSE buffer
    IN [buffer |-> filled, length |-> BufferEntry(filled, h).second]

(***************************************************************************)
(* The thread accumulator.  m is the mutable state the lambdas capture:     *)
(*   threads = active_phase_threads, saved = saved_phase_paths,             *)
(*   starts = nonvariant_starts, out = all_phase_threads,                   *)
(*   names = thread_names, nl = the node length buffer; log = appended, the *)
(*   record of the visits each append was called with.                     *)
(***************************************************************************)
\* gbwt::ENDMARKER, which ends a thread in the binary file
ENDMARKER == 0

ThreadName(sample, slot, number) == <<"_thread_", sample_names[sample], path_name, slot, number>>

\* a close that leaves only the thread it hands over in the list
finish_phase_overwrites(m, phase_number, name) ==
    LET i == phase_number - first_phase
        to_save == m.threads[i]
    IN IF Len(to_save) > 0
       THEN [m EXCEPT !.out = <<[k \in 1 .. Len(to_save) |->
                                   gbwt_to_thread_mapping(to_save[k])]>>,
                      !.threads[i] = <<>>,
                      !.saved[i] = @ + 1,
                      !.names = Append(@, name)]
       ELSE m

\* a close that also hands over an empty buffer
finish_phase_unguarded(m, phase_number, name) ==
    LET i == phase_number - first_phase
        to_save == m.threads[i]
    IN [m EXCEPT !.out = Append(@, [k \in 1 .. Len(to_save) |->
                                       gbwt_to_thread_mapping(to_save[k])]),
                 !.threads[i] = <<>>,
                 !.saved[i] = @ + 1,
                 !.names = Append(@, name)]

\* a close that hands the thread to the list whatever the sink is
finish_phase_also_listed(m, phase_number, name) ==
    LET i == phase_number - first_phase
        to_save == m.threads[i]
        m1 == IF gbwt_name
              THEN [m EXCEPT !.gbwt = Append(@, to_save)]
              ELSE IF binary_haplotype_output
              THEN [m EXCEPT !.binary = @ \o to_save \o <<ENDMARKER>>]
              ELSE m
    IN IF Len(to_save) > 0
       THEN [m1 EXCEPT !.out = Append(@, [k \in 1 .. Len(to_save) |->
                                             gbwt_to_thread_mapping(to_save[k])]),
                       !.threads[i] = <<>>,
                       !.saved[i] = @ + 1,
                       !.names = Append(@, name)]
       ELSE m

finish_phase(m, phase_number, name) ==
    LET i == phase_number - first_phase
        to_save == m.threads[i]
        m1 == IF gbwt_name
              THEN [m EXCEPT !.gbwt = Append(@, to_save)]
              ELSE IF binary_haplotype_output
              THEN [m EXCEPT !.binary = @ \o to_save \o <<ENDMARKER>>]
              ELSE [m EXCEPT !.out = Append(@, [k \in 1 .. Len(to_save) |->
                                                   gbwt_to_thread_mapping(to_save[k])])]
    IN IF Len(to_save) > 0
       THEN [m1 EXCEPT !.threads[i] = <<>>,
                       !.saved[i] = @ + 1,
                       !.names = Append(@, name)]
       ELSE m

\* an append that starts the new fragment with the last visit of the one it closed
append_node_repeats_last(m, phase_number, next) ==
    LET i == phase_number - first_phase
        to_extend == m.threads[i]
        split == /\ Len(to_extend) > 0
                 /\ ~has_edge(edges, to_extend[Len(to_extend)], next)
        m1 == IF split
              THEN finish_phase(m, phase_number,
                                ThreadName(phase_number \div 2, phase_number % 2, m.saved[i]))
              ELSE m
    IN IF split
       THEN [m1 EXCEPT !.threads[i] = <<to_extend[Len(to_extend)], next>>,
                       !.log[i] = Append(@, next)]
       ELSE [m1 EXCEPT !.threads[i] = Append(@, next), !.log[i] = Append(@, next)]

\* an append that never looks for the edge
append_node_unchecked(m, phase_number, next) ==
    [m EXCEPT !.threads[phase_number - first_phase] = Append(@, next),
              !.log[phase_number - first_phase] = Append(@, next)]

\* an append that looks for the edge from the new visit back to the last one
append_node_backwards(m, phase_number, next) ==
    LET i == phase_number - first_phase
        to_extend == m.threads[i]
        split == /\ Len(to_extend) > 0
                 /\ ~has_edge(edges, next, to_extend[Len(to_extend)])
        m1 == IF split
              THEN finish_phase(m, phase_number,
                                ThreadName(phase_number \div 2, phase_number % 2, m.saved[i]))
              ELSE m
    IN [m1 EXCEPT !.threads[i] = Append(@, next), !.log[i] = Append(@, next)]

append_node(m, phase_number, next) ==
    LET i == phase_number - first_phase
        to_extend == m.threads[i]
        split == /\ Len(to_extend) > 0
                 /\ ~has_edge(edges, to_extend[Len(to_extend)], next)
        m1 == IF split
              THEN finish_phase(m, phase_number,
                                ThreadName(phase_number \div 2, phase_number % 2, m.saved[i]))
              ELSE m
    IN [m1 EXCEPT !.threads[i] = Append(@, next), !.log[i] = Append(@, next)]

append_node_nocheck(m, phase_number, next) ==
    [m EXCEPT !.threads[phase_number - first_phase] = Append(@, next),
              !.log[phase_number - first_phase] = Append(@, next)]

\* the while loop of append_reference_mappings_until (lines 687-691)
\* an extension that leaves the cursor at the position asked for
RECURSIVE AppendRest_to_end(_, _, _, _, _)
AppendRest_to_end(m, phase_number, ref_pos, next_to_add, end) ==
    IF ref_pos < end /\ next_to_add # PathEnd
    THEN AppendRest_to_end(append_node_nocheck(m, phase_number,
                                               node_side_to_gbwt(by_start[next_to_add].side)),
                           phase_number, ref_pos + path_node_length(next_to_add),
                           next_to_add + 1, end)
    ELSE [m EXCEPT !.starts[phase_number - first_phase] = end]

RECURSIVE AppendRest(_, _, _, _, _)
AppendRest(m, phase_number, ref_pos, next_to_add, end) ==
    IF ref_pos < end /\ next_to_add # PathEnd
    THEN AppendRest(append_node_nocheck(m, phase_number,
                                        node_side_to_gbwt(by_start[next_to_add].side)),
                    phase_number, ref_pos + path_node_length(next_to_add),
                    next_to_add + 1, end)
    ELSE [m EXCEPT !.starts[phase_number - first_phase] = ref_pos]

append_reference_mappings_until(m, phase_number, end) ==
    LET ref_pos == m.starts[phase_number - first_phase]
        next_to_add == find_position(ref_pos)
    IN IF ref_pos < end /\ next_to_add # PathEnd
       THEN AppendRest(append_node(m, phase_number,
                                   node_side_to_gbwt(by_start[next_to_add].side)),
                       phase_number, ref_pos + path_node_length(next_to_add),
                       next_to_add + 1, end)
       ELSE AppendRest(m, phase_number, ref_pos, next_to_add, end)

(***************************************************************************)
(* Genotype strings are sequences of characters.                           *)
(***************************************************************************)
npos == -1

\* std::string::find(ch): the 0-based position of the first ch, or npos
find(str, ch) ==
    IF \E k \in 1 .. Len(str) : str[k] = ch
    THEN (CHOOSE k \in 1 .. Len(str) : str[k] = ch /\ \A j \in 1 .. k - 1 : str[j] # ch) - 1
    ELSE npos

\* std::string::substr(pos, count) and substr(pos)
substr(str, pos, count) == SubSeq(str, pos + 1, Min(pos + count, Len(str)))
substr_from(str, pos) == SubSeq(str, pos + 1, Len(str))

Digits == <<"0", "1", "2", "3", "4", "5", "6", "7", "8", "9">>
IsDigit(ch) == \E d \in 1 .. 10 : Digits[d] = ch
DigitValue(ch) == (CHOOSE d \in 1 .. 10 : Digits[d] = ch) - 1

\* std::stoi: the value of the leading digits; it throws where there is none
RECURSIVE LeadingValue(_, _)
LeadingValue(str, acc) ==
    IF str # <<>> /\ IsDigit(Head(str))
    THEN LeadingValue(Tail(str), 10 * acc + DigitValue(Head(str)))
    ELSE acc
stoi_throws(str) == ~(str # <<>> /\ IsDigit(Head(str)))
stoi(str) == LeadingValue(str, 0)

\* a parse that calls a genotype without active phase diploid
ParseGenotype_resets_ploidy(genotype, was_diploid) ==
    LET bar == find(genotype, "|")
        haploid == /\ genotype # <<>>
                   /\ bar = npos
                   /\ find(genotype, "/") = npos
        diploid == /\ genotype # <<>>
                   /\ bar # npos
                   /\ bar > 0
                   /\ bar + 1 < Len(genotype)
        new_active_phases == IF haploid THEN 1 ELSE IF diploid THEN 2 ELSE 0
        limit == IF haploid THEN Len(genotype) ELSE bar
        first_str == substr(genotype, 0, limit)
        second_str == substr_from(genotype, limit + 1)
        first_called == new_active_phases > 0 /\ first_str # <<".">>
        second_called == new_active_phases > 1 /\ second_str # <<".">>
    IN [new_active_phases |-> new_active_phases,
        throws |-> \/ (first_called /\ stoi_throws(first_str))
                   \/ (second_called /\ stoi_throws(second_str)),
        is_diploid |-> ~haploid,
        alt_index |-> <<IF first_called THEN stoi(first_str) ELSE -1,
                        IF second_called THEN stoi(second_str) ELSE -1>>]

\* lines 733-761: the number of active phases, the ploidy and the two allele numbers
\* (-1: missing) of a genotype string; was_diploid is diploid_region of the sample
ParseGenotype(genotype, was_diploid) ==
    LET bar == find(genotype, "|")
        haploid == /\ genotype # <<>>
                   /\ bar = npos
                   /\ find(genotype, "/") = npos
        diploid == /\ genotype # <<>>
                   /\ bar # npos
                   /\ bar > 0
                   /\ bar + 1 < Len(genotype)
        new_active_phases == IF haploid THEN 1 ELSE IF diploid THEN 2 ELSE 0
        limit == IF haploid THEN Len(genotype) ELSE bar
        first_str == substr(genotype, 0, limit)
        second_str == substr_from(genotype, limit + 1)
        first_called == new_active_phases > 0 /\ first_str # <<".">>
        second_called == new_active_phases > 1 /\ second_str # <<".">>
    IN [new_active_phases |-> new_active_phases,
        throws |-> \/ (first_called /\ stoi_throws(first_str))
                   \/ (second_called /\ stoi_throws(second_str)),
        is_diploid |-> IF haploid THEN FALSE ELSE IF diploid THEN TRUE ELSE was_diploid,
        alt_index |-> <<IF first_called THEN stoi(first_str) ELSE -1,
                        IF second_called THEN stoi(second_str) ELSE -1>>]

(***************************************************************************)
(* handle_variant, first half: breaking the paths of one sample.            *)
(***************************************************************************)
\* a loop that stops one phase early
RECURSIVE BreakPhases_one_short(_, _, _, _, _)
BreakPhases_one_short(m, sample, offset, active, position) ==
    IF offset < active - 1
    THEN LET phase_id == 2 * sample - first_phase
             cursor == m.starts[phase_id + offset]
             m1 == append_reference_mappings_until(m, sample * 2 + offset, position)
             m2 == finish_phase(m1, sample * 2 + offset,
                                ThreadName(sample, offset,
                                           m1.saved[sample * 2 - first_phase]))
             m3 == [m2 EXCEPT !.starts[phase_id + offset] = cursor]
         IN BreakPhases_one_short(m3, sample, offset + 1, active, position)
    ELSE m

\* a close of the buffers as they are, with no reference added before
RECURSIVE BreakPhases_unextended(_, _, _, _, _)
BreakPhases_unextended(m, sample, offset, active, position) ==
    IF offset < active
    THEN LET m2 == finish_phase(m, sample * 2 + offset,
                                ThreadName(sample, offset,
                                           m.saved[sample * 2 - first_phase]))
         IN BreakPhases_unextended(m2, sample, offset + 1, active, position)
    ELSE m

\* a close that leaves the cursor where the extension took it
RECURSIVE BreakPhases_no_rollback(_, _, _, _, _)
BreakPhases_no_rollback(m, sample, offset, active, position) ==
    IF offset < active
    THEN LET m1 == append_reference_mappings_until(m, sample * 2 + offset, position)
             m2 == finish_phase(m1, sample * 2 + offset,
                                ThreadName(sample, offset,
                                           m1.saved[sample * 2 - first_phase]))
         IN BreakPhases_no_rollback(m2, sample, offset + 1, active, position)
    ELSE m

\* lines 769-796: one iteration per phase that was active at the previous variant
RECURSIVE BreakPhases(_, _, _, _, _)
BreakPhases(m, sample, offset, active, position) ==
    IF offset < active
    THEN LET phase_id == 2 * sample - first_phase
             cursor == m.starts[phase_id + offset]
             m1 == append_reference_mappings_until(m, sample * 2 + offset, position)
             m2 == finish_phase(m1, sample * 2 + offset,
                                ThreadName(sample, offset,
                                           m1.saved[sample * 2 - first_phase]))
             m3 == [m2 EXCEPT !.starts[phase_id + offset] = cursor]
         IN BreakPhases(m3, sample, offset + 1, active, position)
    ELSE m

\* an alignment to the smaller cursor
AlignStarts_min(m, sample) ==
    LET phase_id == 2 * sample - first_phase
        min_pos == Min(m.starts[phase_id], m.starts[phase_id + 1])
    IN [m EXCEPT !.starts[phase_id] = min_pos, !.starts[phase_id + 1] = min_pos]

\* lines 798-804
AlignStarts(m, sample) ==
    LET phase_id == 2 * sample - first_phase
        max_pos == Max(m.starts[phase_id], m.starts[phase_id + 1])
    IN [m EXCEPT !.starts[phase_id] = max_pos, !.starts[phase_id + 1] = max_pos]

\* paths broken on a ploidy change only
BreakPaths_ploidy_only(m, sample, parsed, was_active, was_diploid, position) ==
    IF parsed.is_diploid # was_diploid
    THEN AlignStarts(BreakPhases(m, sample, 0, was_active, position), sample)
    ELSE m

\* lines 763-805
BreakPaths(m, sample, parsed, was_active, was_diploid, position) ==
    IF \/ parsed.is_diploid # was_diploid
       \/ (parsed.new_active_phases = 0 /\ was_active > 0)
    THEN LET closed == BreakPhases(m, sample, 0, was_active, position)
         IN IF parsed.is_diploid # was_diploid THEN AlignStarts(closed, sample) ELSE closed
    ELSE m

(***************************************************************************)
(* handle_variant, second half: the allele one phase calls.                 *)
(***************************************************************************)
HasPath(key) == key \in DOMAIN alt_paths /\ Len(alt_paths[key]) # 0

RECURSIVE SeqOf(_)
SeqOf(S) == IF S = {} THEN <<>>
            ELSE LET x == CHOOSE y \in S : TRUE IN <<x>> \o SeqOf(S \ {x})

\* the end of the neighbour looked at last, whichever is the latest
RECURSIVE LatestEnd_last(_, _, _, _)
LatestEnd_last(buffer, left_edges, first_alt_id, first_ref_base) ==
    IF left_edges = <<>> THEN [buffer |-> buffer, first_ref_base |-> first_ref_base]
    ELSE LET edge == Head(left_edges)
             other_id == IF edge.from = first_alt_id THEN edge.to ELSE edge.from
         IN IF other_id = first_alt_id \/ other_id \notin DOMAIN by_id
            THEN LatestEnd_last(buffer, Tail(left_edges), first_alt_id, first_ref_base)
            ELSE LET got == NodeLengthBuffer(buffer, other_id)
                 IN LatestEnd_last(got.buffer, Tail(left_edges), first_alt_id,
                                   by_id[other_id].first + got.length)

\* lines 873-895: past the end of the latest reference node entering the alt
RECURSIVE LatestEnd(_, _, _, _)
LatestEnd(buffer, left_edges, first_alt_id, first_ref_base) ==
    IF left_edges = <<>> THEN [buffer |-> buffer, first_ref_base |-> first_ref_base]
    ELSE LET edge == Head(left_edges)
             other_id == IF edge.from = first_alt_id THEN edge.to ELSE edge.from
         IN IF other_id = first_alt_id \/ other_id \notin DOMAIN by_id
            THEN LatestEnd(buffer, Tail(left_edges), first_alt_id, first_ref_base)
            ELSE LET got == NodeLengthBuffer(buffer, other_id)
                 IN LatestEnd(got.buffer, Tail(left_edges), first_alt_id,
                              Max(first_ref_base, by_id[other_id].first + got.length))

\* lines 909-917: the lengths of the nodes of the reference allele's path
RECURSIVE AddLengths(_, _, _)
AddLengths(buffer, mappings, last_ref_base) ==
    IF mappings = <<>> THEN [buffer |-> buffer, last_ref_base |-> last_ref_base]
    ELSE LET got == NodeLengthBuffer(buffer, Head(mappings).node_id)
         IN AddLengths(got.buffer, Tail(mappings), last_ref_base + got.length)

\* the site of an alt without path taken to end where it starts
SiteBounds_no_length(buffer, var_name, alt) ==
    LET ref_key == <<var_name, 0>>
        alt_key == <<var_name, alt>>
        first == IF HasPath(ref_key)
                 THEN [buffer |-> buffer,
                       first_ref_base |-> by_id[alt_paths[ref_key][1].node_id].first]
                 ELSE LET first_alt == alt_paths[alt_key][1]
                          left_edges == IF first_alt.is_reverse
                                        THEN edges_on_end(edges, first_alt.node_id)
                                        ELSE edges_on_start(edges, first_alt.node_id)
                      IN LatestEnd(buffer, SeqOf(left_edges), first_alt.node_id, 0)
        last == IF ref_key \in DOMAIN alt_paths /\ HasPath(alt_key)
                THEN AddLengths(first.buffer, alt_paths[ref_key], first.first_ref_base)
                ELSE [buffer |-> first.buffer, last_ref_base |-> first.first_ref_base]
    IN IF ~HasPath(ref_key) /\ ~HasPath(alt_key)
       THEN [found |-> FALSE, buffer |-> buffer]
       ELSE [found |-> TRUE, buffer |-> last.buffer,
             first_ref_base |-> first.first_ref_base, last_ref_base |-> last.last_ref_base]

\* the site located from the alt's neighbours whenever the alt has a path
SiteBounds_alt_first(buffer, var_name, alt) ==
    LET ref_key == <<var_name, 0>>
        alt_key == <<var_name, alt>>
        first == IF ~HasPath(alt_key)
                 THEN [buffer |-> buffer,
                       first_ref_base |-> by_id[alt_paths[ref_key][1].node_id].first]
                 ELSE LET first_alt == alt_paths[alt_key][1]
                          left_edges == IF first_alt.is_reverse
                                        THEN edges_on_end(edges, first_alt.node_id)
                                        ELSE edges_on_start(edges, first_alt.node_id)
                      IN LatestEnd(buffer, SeqOf(left_edges), first_alt.node_id, 0)
        last == IF ref_key \in DOMAIN alt_paths
                THEN AddLengths(first.buffer, alt_paths[ref_key], first.first_ref_base)
                ELSE [buffer |-> first.buffer, last_ref_base |-> first.first_ref_base]
    IN IF ~HasPath(ref_key) /\ ~HasPath(alt_key)
       THEN [found |-> FALSE, buffer |-> buffer]
       ELSE [found |-> TRUE, buffer |-> last.buffer,
             first_ref_base |-> first.first_ref_base, last_ref_base |-> last.last_ref_base]

\* lines 839-917: where the site starts and ends on the reference, for one called alt
SiteBounds(buffer, var_name, alt) ==
    LET ref_key == <<var_name, 0>>
        alt_key == <<var_name, alt>>
        first == IF HasPath(ref_key)
                 THEN [buffer |-> buffer,
                       first_ref_base |-> by_id[alt_paths[ref_key][1].node_id].first]
                 ELSE LET first_alt == alt_paths[alt_key][1]
                          left_edges == IF first_alt.is_reverse
                                        THEN edges_on_end(edges, first_alt.node_id)
                                        ELSE edges_on_start(edges, first_alt.node_id)
                      IN LatestEnd(buffer, SeqOf(left_edges), first_alt.node_id, 0)
        last == IF ref_key \in DOMAIN alt_paths
                THEN AddLengths(first.buffer, alt_paths[ref_key], first.first_ref_base)
                ELSE [buffer |-> first.buffer, last_ref_base |-> first.first_ref_base]
    IN IF ~HasPath(ref_key) /\ ~HasPath(alt_key)
       THEN [found |-> FALSE, buffer |-> buffer]
       ELSE [found |-> TRUE, buffer |-> last.buffer,
             first_ref_base |-> first.first_ref_base, last_ref_base |-> last.last_ref_base]

\* the alt's mappings left out of the thread
AppendAlt_none(m, phase_number, mappings) == m

\* the alt's mappings taken from the last to the first
RECURSIVE AppendAlt_backwards(_, _, _)
AppendAlt_backwards(m, phase_number, mappings) ==
    IF mappings = <<>> THEN m
    ELSE AppendAlt_backwards(append_node(m, phase_number,
                                         mapping_to_gbwt(mappings[Len(mappings)])),
                             phase_number, SubSeq(mappings, 1, Len(mappings) - 1))

\* lines 927-931
RECURSIVE AppendAlt(_, _, _)
AppendAlt(m, phase_number, mappings) ==
    IF mappings = <<>> THEN m
    ELSE AppendAlt(append_node(m, phase_number, mapping_to_gbwt(Head(mappings))),
                   phase_number, Tail(mappings))

\* the allele attached with the cursor left at the start of the site
HandleAllele_cursor_at_site_start(m, var_name, sample, offset, alt) ==
    IF alt = -1 \/ alt = 0 THEN m
    ELSE LET site == SiteBounds(m.nl, var_name, alt)
             phase_number == sample * 2 + offset
             m0 == [m EXCEPT !.nl = site.buffer]
         IN IF ~site.found THEN m0
            ELSE IF m0.starts[phase_number - first_phase] <= site.first_ref_base
                    \/ ~discard_overlaps
            THEN LET m1 == append_reference_mappings_until(m0, phase_number,
                                                           site.first_ref_base)
                     m2 == AppendAlt(m1, phase_number,
                                     IF <<var_name, alt>> \in DOMAIN alt_paths
                                     THEN alt_paths[<<var_name, alt>>] ELSE <<>>)
                 IN [m2 EXCEPT !.starts[phase_number - first_phase] = site.first_ref_base]
            ELSE m0

\* the allele attached without moving the cursor past the site
HandleAllele_keeps_cursor(m, var_name, sample, offset, alt) ==
    IF alt = -1 \/ alt = 0 THEN m
    ELSE LET site == SiteBounds(m.nl, var_name, alt)
             phase_number == sample * 2 + offset
             m0 == [m EXCEPT !.nl = site.buffer]
         IN IF ~site.found THEN m0
            ELSE AppendAlt(append_reference_mappings_until(m0, phase_number,
                                                           site.first_ref_base),
                           phase_number,
                           IF <<var_name, alt>> \in DOMAIN alt_paths
                           THEN alt_paths[<<var_name, alt>>] ELSE <<>>)

\* the alt attached whatever the cursor is
HandleAllele_never_discards(m, var_name, sample, offset, alt) ==
    IF alt = -1 \/ alt = 0 THEN m
    ELSE LET site == SiteBounds(m.nl, var_name, alt)
             phase_number == sample * 2 + offset
             m0 == [m EXCEPT !.nl = site.buffer]
         IN IF ~site.found THEN m0
            ELSE LET m1 == append_reference_mappings_until(m0, phase_number,
                                                           site.first_ref_base)
                     m2 == AppendAlt(m1, phase_number,
                                     IF <<var_name, alt>> \in DOMAIN alt_paths
                                     THEN alt_paths[<<var_name, alt>>] ELSE <<>>)
                 IN [m2 EXCEPT !.starts[phase_number - first_phase] = site.last_ref_base]

\* a site without paths taken as a site at the end of the contig
HandleAllele_no_skip(m, var_name, sample, offset, alt) ==
    IF alt = -1 \/ alt = 0 THEN m
    ELSE LET site == SiteBounds(m.nl, var_name, alt)
             phase_number == sample * 2 + offset
             m0 == [m EXCEPT !.nl = site.buffer]
         IN IF ~site.found
            THEN append_reference_mappings_until(m0, phase_number, path_length)
            ELSE IF m0.starts[phase_number - first_phase] <= site.first_ref_base
                    \/ ~discard_overlaps
            THEN LET m1 == append_reference_mappings_until(m0, phase_number,
                                                           site.first_ref_base)
                     m2 == AppendAlt(m1, phase_number,
                                     IF <<var_name, alt>> \in DOMAIN alt_paths
                                     THEN alt_paths[<<var_name, alt>>] ELSE <<>>)
                 IN [m2 EXCEPT !.starts[phase_number - first_phase] = site.last_ref_base]
            ELSE m0

\* a missing allele that breaks the thread of the phase
HandleAllele_closes_missing(m, var_name, sample, offset, alt) ==
    IF alt = -1
    THEN finish_phase(m, sample * 2 + offset,
                      ThreadName(sample, offset, m.saved[sample * 2 + offset - first_phase]))
    ELSE IF alt = 0 THEN m
    ELSE LET site == SiteBounds(m.nl, var_name, alt)
             phase_number == sample * 2 + offset
             m0 == [m EXCEPT !.nl = site.buffer]
         IN IF ~site.found THEN m0
            ELSE IF m0.starts[phase_number - first_phase] <= site.first_ref_base
                    \/ ~discard_overlaps
            THEN LET m1 == append_reference_mappings_until(m0, phase_number,
                                                           site.first_ref_base)
                     m2 == AppendAlt(m1, phase_number,
                                     IF <<var_name, alt>> \in DOMAIN alt_paths
                                     THEN alt_paths[<<var_name, alt>>] ELSE <<>>)
                 IN [m2 EXCEPT !.starts[phase_number - first_phase] = site.last_ref_base]
            ELSE m0

\* lines 812-938: one iteration of the loop over the active phases
HandleAllele(m, var_name, sample, offset, alt) ==
    IF alt = -1 \/ alt = 0 THEN m
    ELSE LET site == SiteBounds(m.nl, var_name, alt)
             phase_number == sample * 2 + offset
             m0 == [m EXCEPT !.nl = site.buffer]
         IN IF ~site.found THEN m0
            ELSE IF m0.starts[phase_number - first_phase] <= site.first_ref_base
                    \/ ~discard_overlaps
            THEN LET m1 == append_reference_mappings_until(m0, phase_number,
                                                           site.first_ref_base)
                     m2 == AppendAlt(m1, phase_number,
                                     IF <<var_name, alt>> \in DOMAIN alt_paths
                                     THEN alt_paths[<<var_name, alt>>] ELSE <<>>)
                 IN [m2 EXCEPT !.starts[phase_number - first_phase] = site.last_ref_base]
            ELSE m0

\* the end of a batch that extends the threads and leaves them in their buffers
RECURSIVE FinishPhases_left_open(_, _, _, _)
FinishPhases_left_open(m, sample, offset, active) ==
    IF offset < active
    THEN FinishPhases_left_open(append_reference_mappings_until(m, sample * 2 + offset,
                                                                path_length),
                                sample, offset + 1, active)
    ELSE m

(***************************************************************************)
(* The end of a batch (lines 997-1007), for one sample.                     *)
(***************************************************************************)
\* the end of a batch that closes the buffers as they are
RECURSIVE FinishPhases_unextended(_, _, _, _)
FinishPhases_unextended(m, sample, offset, active) ==
    IF offset < active
    THEN LET m2 == finish_phase(m, sample * 2 + offset,
                                ThreadName(sample, offset,
                                           m.saved[sample * 2 + offset - first_phase]))
         IN FinishPhases_unextended(m2, sample, offset + 1, active)
    ELSE m

RECURSIVE FinishPhases(_, _, _, _)
FinishPhases(m, sample, offset, active) ==
    IF offset < active
    THEN LET m1 == append_reference_mappings_until(m, sample * 2 + offset, path_length)
             m2 == finish_phase(m1, sample * 2 + offset,
                                ThreadName(sample, offset,
                                           m1.saved[sample * 2 + offset - first_phase]))
         IN FinishPhases(m2, sample, offset + 1, active)
    ELSE m

(***************************************************************************)
(* The inputs the model is run on.                                          *)
(***************************************************************************)
Fwd(id) == [node_id |-> id, is_reverse |-> FALSE]
Edge(from, to) == <<Encode(from, FALSE), Encode(to, FALSE)>>

\* the reference path's own edges, the edges of each site's alt, and the edges
\* between the alts of adjacent sites
ReferenceEdges == {Edge(1, 2), Edge(2, 3), Edge(3, 253), Edge(253, 5)}
FullEdges == ReferenceEdges \cup
             {Edge(1, 6), Edge(6, 3), Edge(3, 7), Edge(7, 5), Edge(1, 253),
              Edge(3, 8), Edge(8, 253), Edge(8, 7), Edge(1, 7),
              Edge(2, 9), Edge(9, 10), Edge(10, 253), Edge(6, 9), Edge(10, 7),
              Edge(253, 11), Edge(7, 11)}

\* s1, s2: substitutions of node 2 and of node 253; d1: deletion of nodes 2 and 3
\* (no alt path); i1: insertion of node 8 after node 3 (empty reference allele);
\* x1: a site the graph construction skipped (no path); n1, n2: not DNA records (an
\* N in the alt, an N in the reference allele);
\* m1: substitution of node 3 by the two nodes 9 and 10; e1: substitution of node 5,
\* the last node of the reference path, by node 11
AllAltPaths ==
    (<<"s1", 0>> :> <<Fwd(2)>>) @@ (<<"s1", 1>> :> <<Fwd(6)>>) @@
    (<<"s2", 0>> :> <<Fwd(253)>>) @@ (<<"s2", 1>> :> <<Fwd(7)>>) @@
    (<<"d1", 0>> :> <<Fwd(2), Fwd(3)>>) @@
    (<<"i1", 0>> :> <<>>) @@ (<<"i1", 1>> :> <<Fwd(8)>>) @@
    (<<"n1", 0>> :> <<Fwd(2)>>) @@ (<<"n1", 1>> :> <<Fwd(6)>>) @@
    (<<"m1", 0>> :> <<Fwd(3)>>) @@ (<<"m1", 1>> :> <<Fwd(9), Fwd(10)>>) @@
    (<<"e1", 0>> :> <<Fwd(5)>>) @@ (<<"e1", 1>> :> <<Fwd(11)>>)

Site(name, position, ref, alt) == [name |-> name, position |-> position, ref |-> ref, alt |-> alt]
S1 == Site("s1", 4, <<"A">>, <<<<"C">>>>)
S2 == Site("s2", 7, <<"G">>, <<<<"T">>>>)
D1 == Site("d1", 3, <<"C", "A", "T", "T">>, <<<<"C">>>>)
I1 == Site("i1", 6, <<"T">>, <<<<"T", "G", "G">>>>)
X1 == Site("x1", 5, <<"T">>, <<<<"A">>>>)
N1 == Site("n1", 4, <<"A">>, <<<<"N">>>>)
N2 == Site("n2", 6, <<"N">>, <<<<"A">>>>)
M1 == Site("m1", 5, <<"T", "T">>, <<<<"G", "A">>>>)
E1 == Site("e1", 8, <<"A", "C", "A">>, <<<<"T", "G", "T">>>>)

Scenario(sites, missing) == [sites |-> sites, edges |-> FullEdges \ missing]

\* sites and graphs for the runs of one sample with every genotype
Scenarios ==
    {Scenario(<<S1>>, {}), Scenario(<<S1>>, {Edge(1, 6)}), Scenario(<<S1>>, {Edge(6, 3)}),
     Scenario(<<D1>>, {}), Scenario(<<D1>>, {Edge(1, 253)}), Scenario(<<I1>>, {}),
     Scenario(<<X1>>, {}), Scenario(<<N1>>, {}), Scenario(<<>>, {}),
     Scenario(<<S1, S2>>, {}), Scenario(<<S1, S2>>, {Edge(6, 3)}),
     Scenario(<<D1, S1>>, {}), Scenario(<<D1, S2>>, {Edge(1, 253)}),
     Scenario(<<I1, S2>>, {}), Scenario(<<N1, X1>>, {}), Scenario(<<X1, S2>>, {}),
     Scenario(<<D1, S1, S2>>, {}), Scenario(<<M1>>, {}), Scenario(<<S1, M1>>, {Edge(9, 10)}),
     Scenario(<<E1>>, {}), Scenario(<<S2, E1>>, {}), Scenario(<<N1, N2>>, {})}
\* sites and graphs for the runs of several samples
BatchScenarios == {Scenario(<<S1, S2>>, {}), Scenario(<<S1, S2>>, {Edge(6, 3)}),
                   Scenario(<<N1>>, {})}

Genotype(a, sep, b) == <<a, sep, b>>
Genotypes == {Genotype("0", "|", "1"), Genotype("1", "|", "1"), Genotype("0", "|", "0"),
              Genotype(".", "|", "1"), Genotype("0", "/", "1"), <<"1">>, <<"0">>, <<".">>}

VariantFile(sites, genotypes) ==
    [k \in 1 .. Len(sites) |->
        [name |-> sites[k].name, position |-> sites[k].position, ref |-> sites[k].ref,
         alt |-> sites[k].alt, genotypes |-> genotypes[k]]]

\* the largest size_t, ~(size_t)0: the model's largest integer stands for it
SIZE_MAX == 2147483647
\* lines 236-237: X..Y as typed to the semi-open range; the + 1 is done in size_t
ParseRange(x, y) == <<x, IF y = SIZE_MAX THEN 0 ELSE y + 1>>

\* one sample in the range, with every genotype; the others are never read
InitOneSample ==
    \E sc \in Scenarios, x \in {0, NumSamples - 1} :
        /\ edges = sc.edges
        /\ range_first = x
        /\ range_last = x
        /\ samples_in_batch = (IF x = 0 THEN 1 ELSE MaxBatch)
        /\ \E column \in [1 .. Len(sc.sites) -> Genotypes] :
              variant_file = VariantFile(sc.sites,
                  [k \in 1 .. Len(sc.sites) |->
                      [s \in Samples |-> IF s = x THEN column[k] ELSE <<".">>]])

\* several samples, each with one of a few genotype columns, for every batch size
Columns == {<<Genotype("1", "|", "1"), Genotype("0", "|", "1")>>,
            <<Genotype("1", "|", "1"), <<"1">>>>,
            <<Genotype("0", "/", "1"), Genotype("1", "|", "1")>>}
InitBatches ==
    \E sc \in BatchScenarios :
        /\ edges = sc.edges
        /\ range_first \in {0, 1}
        /\ range_last \in {NumSamples - 2, NumSamples, SIZE_MAX}
        /\ samples_in_batch \in 0 .. MaxBatch
        /\ \E columns \in [Samples -> Columns] :
              variant_file = VariantFile(sc.sites,
                  [k \in 1 .. Len(sc.sites) |-> [s \in Samples |-> columns[s][k]]])

Init ==
    /\ InitOneSample \/ InitBatches
    /\ gbwt_name \in BOOLEAN
    /\ binary_haplotype_output = gbwt_name
    /\ alt_paths = AllAltPaths
    /\ discard_overlaps \in BOOLEAN
    /\ pc = "options"
    /\ sample_range = ParseRange(range_first, range_last)
    /\ batch_start = 0
    /\ batch_limit = 0
    /\ first_phase = 0
    /\ active_phase_threads = <<>>
    /\ saved_phase_paths = <<>>
    /\ active_phases = <<>>
    /\ diploid_region = <<>>
    /\ nonvariant_starts = <<>>
    /\ all_phase_threads = <<>>
    /\ thread_names = <<>>
    /\ gbwt_builder = <<>>
    /\ binary_file = <<>>
    /\ xg_threads = <<>>
    /\ xg_thread_names = <<>>
    /\ haplotype_count = 0
    /\ node_length = <<>>
    /\ next_record = 1
    /\ variants_processed = 0
    /\ sample_number = 0
    /\ phase_offset = 0
    /\ alt_index = <<-1, -1>>
    /\ entry = <<>>
    /\ runs = <<>>
    /\ batches = <<>>
    /\ at_variant = <<>>
    /\ appended = <<>>

(***************************************************************************)
(* The program, one action per piece of control flow.                       *)
(***************************************************************************)
Captured == [threads |-> active_phase_threads, saved |-> saved_phase_paths,
             starts |-> nonvariant_starts, out |-> all_phase_threads,
             names |-> thread_names, nl |-> node_length,
             gbwt |-> gbwt_builder, binary |-> binary_file, log |-> appended]

Store(m) ==
    /\ active_phase_threads' = m.threads
    /\ saved_phase_paths' = m.saved
    /\ nonvariant_starts' = m.starts
    /\ all_phase_threads' = m.out
    /\ thread_names' = m.names
    /\ node_length' = m.nl
    /\ gbwt_builder' = m.gbwt
    /\ binary_file' = m.binary
    /\ appended' = m.log
    /\ UNCHANGED <<xg_threads, xg_thread_names, haplotype_count>>

\* utility allATGC
allATGC(str) == \A k \in 1 .. Len(str) : str[k] \in {"A", "T", "G", "C"}
isDNA(var) == allATGC(var.ref) /\ \A a \in 1 .. Len(var.alt) : allATGC(var.alt[a])

phases_in_batch == 2 * samples_in_batch

\* the batch size not looked at: the contig is entered with no room for a sample
RejectBatchSize_ignored ==
    /\ pc = "options"
    /\ samples_in_batch < 1
    /\ pc' = "batch"
    /\ batch_start' = sample_range[1]
    /\ batch_limit' = Min(sample_range[1] + samples_in_batch, sample_range[2])
    /\ UNCHANGED <<inputs, batch_state, output, node_length, history, sample_range,
                   first_phase, next_record, variants_processed, sample_number,
                   phase_offset, alt_index>>

\* lines 414-417
RejectBatchSize ==
    /\ pc = "options"
    /\ samples_in_batch < 1
    /\ pc' = "error"
    /\ UNCHANGED <<inputs, batch_state, output, node_length, history, sample_range,
                   batch_start, batch_limit, first_phase, next_record,
                   variants_processed, sample_number, phase_offset, alt_index>>

\* lines 419-422
RejectBothSinks ==
    /\ pc = "options"
    /\ ~(samples_in_batch < 1)
    /\ gbwt_name /\ binary_haplotype_output
    /\ pc' = "error"
    /\ UNCHANGED <<inputs, batch_state, output, node_length, history, sample_range,
                   batch_start, batch_limit, first_phase, next_record,
                   variants_processed, sample_number, phase_offset, alt_index>>

\* lines 536 and 568-583
StartContig ==
    /\ pc = "options"
    /\ ~(samples_in_batch < 1)
    /\ ~(gbwt_name /\ binary_haplotype_output)
    /\ LET second == Min(sample_range[2], NumSamples)
       IN /\ sample_range' = <<sample_range[1], second>>
          /\ batch_start' = sample_range[1]
          /\ batch_limit' = Min(sample_range[1] + samples_in_batch, second)
    /\ first_phase' = 2 * sample_range[1]
    /\ active_phase_threads' = [i \in 0 .. phases_in_batch - 1 |-> <<>>]
    /\ saved_phase_paths' = [i \in 0 .. phases_in_batch - 1 |-> 0]
    /\ active_phases' = [i \in 0 .. samples_in_batch - 1 |-> 0]
    /\ diploid_region' = [i \in 0 .. samples_in_batch - 1 |-> TRUE]
    /\ nonvariant_starts' = [i \in 0 .. phases_in_batch - 1 |-> 0]
    /\ appended' = [i \in 0 .. phases_in_batch - 1 |-> <<>>]
    /\ pc' = "batch"
    /\ UNCHANGED <<inputs, output, node_length, history, next_record, variants_processed,
                   sample_number, phase_offset, alt_index>>

\* line 946, true; lines 950-967
BeginBatch ==
    /\ pc = "batch"
    /\ batch_start < sample_range[2]
    /\ next_record' = 1
    /\ variants_processed' = 0
    /\ pc' = "read"
    /\ batches' = Append(batches, [batch_start |-> batch_start, batch_limit |-> batch_limit,
                                   emitted |-> Len(thread_names)])
    /\ UNCHANGED <<inputs, batch_state, output, node_length, entry, runs, at_variant,
                   sample_range, batch_start, batch_limit, first_phase, sample_number,
                   phase_offset, alt_index>>

\* line 946, false: the contig is done
EndContig ==
    /\ pc = "batch"
    /\ ~(batch_start < sample_range[2])
    /\ pc' = "done"
    /\ UNCHANGED <<inputs, batch_state, output, node_length, history, sample_range,
                   batch_start, batch_limit, first_phase, next_record,
                   variants_processed, sample_number, phase_offset, alt_index>>

\* a record that is not DNA passed over but counted as processed
SkipVariant_counted ==
    /\ pc = "read"
    /\ next_record <= Len(variant_file)
    /\ ~isDNA(variant_file[next_record])
    /\ next_record' = next_record + 1
    /\ variants_processed' = variants_processed + 1
    /\ UNCHANGED <<inputs, batch_state, output, node_length, history, pc, sample_range,
                   batch_start, batch_limit, first_phase, sample_number, phase_offset,
                   alt_index>>

\* lines 968-977: a record that is not DNA is passed over
SkipVariant ==
    /\ pc = "read"
    /\ next_record <= Len(variant_file)
    /\ ~isDNA(variant_file[next_record])
    /\ next_record' = next_record + 1
    /\ UNCHANGED <<inputs, batch_state, output, node_length, history, pc, sample_range,
                   batch_start, batch_limit, first_phase, variants_processed,
                   sample_number, phase_offset, alt_index>>

\* lines 968-982 and 724: handle_variant starts with the first sample of the batch
TakeVariant ==
    /\ pc = "read"
    /\ next_record <= Len(variant_file)
    /\ isDNA(variant_file[next_record])
    /\ sample_number' = batch_start
    /\ pc' = "sample"
    /\ at_variant' = nonvariant_starts
    /\ UNCHANGED <<inputs, batch_state, output, node_length, entry, runs, batches,
                   sample_range, batch_start, batch_limit, first_phase, next_record,
                   variants_processed, phase_offset, alt_index>>

\* line 968, false: the contig has no more records
EndOfVariants ==
    /\ pc = "read"
    /\ next_record > Len(variant_file)
    /\ pc' = "finish"
    /\ UNCHANGED <<inputs, batch_state, output, node_length, history, sample_range,
                   batch_start, batch_limit, first_phase, next_record,
                   variants_processed, sample_number, phase_offset, alt_index>>

\* the 0-based position of the record being handled (line 979)
Position == variant_file[next_record].position - 1

\* lines 724-807: the genotype of one sample is parsed and its paths are broken
HandleSample ==
    /\ pc = "sample"
    /\ sample_number < batch_limit
    /\ LET s == sample_number - batch_start
           parsed == ParseGenotype(variant_file[next_record].genotypes[sample_number],
                                   diploid_region[s])
       IN IF parsed.throws
          THEN /\ pc' = "aborted"
               /\ UNCHANGED <<batch_state, output, node_length, history, phase_offset,
                              alt_index>>
          ELSE /\ Store(BreakPaths(Captured, sample_number, parsed, active_phases[s],
                                   diploid_region[s], Position))
               /\ active_phases' = [active_phases EXCEPT ![s] = parsed.new_active_phases]
               /\ diploid_region' = [diploid_region EXCEPT ![s] = parsed.is_diploid]
               /\ alt_index' = parsed.alt_index
               /\ phase_offset' = 0
               /\ pc' = "phase"
               /\ entry' = [threads |-> active_phase_threads,
                            saved |-> saved_phase_paths,
                            starts |-> nonvariant_starts,
                            active |-> active_phases[s],
                            diploid |-> diploid_region[s],
                            emitted |-> Len(all_phase_threads)]
    /\ UNCHANGED <<inputs, runs, batches, at_variant, sample_range, batch_start,
                   batch_limit, first_phase, next_record, variants_processed,
                   sample_number>>

\* lines 809-939: one iteration of the loop over the sample's active phases
HandlePhase ==
    /\ pc = "phase"
    /\ phase_offset < active_phases[sample_number - batch_start]
    /\ Store(HandleAllele(Captured, variant_file[next_record].name, sample_number,
                          phase_offset, alt_index[phase_offset + 1]))
    /\ phase_offset' = phase_offset + 1
    /\ UNCHANGED <<inputs, active_phases, diploid_region, history, pc, sample_range,
                   batch_start, batch_limit, first_phase, next_record,
                   variants_processed, sample_number, alt_index>>

\* line 809, false, and line 724: on to the next sample of the batch
NextSample ==
    /\ pc = "phase"
    /\ ~(phase_offset < active_phases[sample_number - batch_start])
    /\ sample_number' = sample_number + 1
    /\ pc' = "sample"
    /\ UNCHANGED <<inputs, batch_state, output, node_length, history, sample_range,
                   batch_start, batch_limit, first_phase, next_record,
                   variants_processed, phase_offset, alt_index>>

\* line 724, false, and line 985: handle_variant returns
EndVariant ==
    /\ pc = "sample"
    /\ ~(sample_number < batch_limit)
    /\ variants_processed' = variants_processed + 1
    /\ next_record' = next_record + 1
    /\ pc' = "read"
    /\ UNCHANGED <<inputs, batch_state, output, node_length, history, sample_range,
                   batch_start, batch_limit, first_phase, sample_number, phase_offset,
                   alt_index>>

\* the threads finished even when the batch saw no variant
FinishBatch_always ==
    /\ pc = "finish"
    /\ sample_number' = batch_start
    /\ pc' = "finish_sample"
    /\ UNCHANGED <<inputs, batch_state, output, node_length, history, sample_range,
                   batch_start, batch_limit, first_phase, next_record,
                   variants_processed, phase_offset, alt_index>>

\* line 991
FinishBatch ==
    /\ pc = "finish"
    /\ IF variants_processed > 0
       THEN sample_number' = batch_start /\ pc' = "finish_sample"
       ELSE sample_number' = sample_number /\ pc' = "next_batch"
    /\ UNCHANGED <<inputs, batch_state, output, node_length, history, sample_range,
                   batch_start, batch_limit, first_phase, next_record,
                   variants_processed, phase_offset, alt_index>>

\* a batch end that closes both phases of every sample
FinishSample_both_slots ==
    /\ pc = "finish_sample"
    /\ sample_number < batch_limit
    /\ active_phases' = [active_phases EXCEPT ![sample_number - batch_start] = 2]
    /\ Store(FinishPhases(Captured, sample_number, 0, 2))
    /\ sample_number' = sample_number + 1
    /\ UNCHANGED <<inputs, diploid_region, history, pc, sample_range, batch_start,
                   batch_limit, first_phase, next_record, variants_processed,
                   phase_offset, alt_index>>

\* a batch end that closes the phases that are active, whatever the ploidy flag
FinishSample_active_only ==
    /\ pc = "finish_sample"
    /\ sample_number < batch_limit
    /\ Store(FinishPhases(Captured, sample_number, 0,
                          active_phases[sample_number - batch_start]))
    /\ sample_number' = sample_number + 1
    /\ UNCHANGED <<inputs, active_phases, diploid_region, history, pc, sample_range,
                   batch_start, batch_limit, first_phase, next_record,
                   variants_processed, phase_offset, alt_index>>

\* lines 997-1007, for one sample
FinishSample ==
    /\ pc = "finish_sample"
    /\ sample_number < batch_limit
    /\ LET s == sample_number - batch_start
           active == IF diploid_region[s] THEN 2 ELSE 1
       IN /\ active_phases' = [active_phases EXCEPT ![s] = active]
          /\ Store(FinishPhases(Captured, sample_number, 0, active))
    /\ sample_number' = sample_number + 1
    /\ UNCHANGED <<inputs, diploid_region, history, pc, sample_range, batch_start,
                   batch_limit, first_phase, next_record, variants_processed,
                   phase_offset, alt_index>>

\* line 997, false
FinishedSamples ==
    /\ pc = "finish_sample"
    /\ ~(sample_number < batch_limit)
    /\ pc' = "next_batch"
    /\ UNCHANGED <<inputs, batch_state, output, node_length, history, sample_range,
                   batch_start, batch_limit, first_phase, next_record,
                   variants_processed, sample_number, phase_offset, alt_index>>

\* a batch change that keeps the first phase of the batch before
NextBatch_keeps_first_phase ==
    /\ pc = "next_batch"
    /\ batch_start' = batch_limit
    /\ batch_limit' = Min(batch_limit + samples_in_batch, sample_range[2])
    /\ saved_phase_paths' = [i \in 0 .. phases_in_batch - 1 |-> 0]
    /\ active_phases' = [i \in 0 .. samples_in_batch - 1 |-> 0]
    /\ diploid_region' = [i \in 0 .. samples_in_batch - 1 |-> TRUE]
    /\ nonvariant_starts' = [i \in 0 .. phases_in_batch - 1 |-> 0]
    /\ appended' = [i \in 0 .. phases_in_batch - 1 |-> <<>>]
    /\ pc' = "batch"
    /\ UNCHANGED <<inputs, active_phase_threads, first_phase, output, node_length, history,
                   sample_range, next_record, variants_processed, sample_number,
                   phase_offset, alt_index>>

\* a batch change that moves the batch on by one sample
NextBatch_by_one ==
    /\ pc = "next_batch"
    /\ batch_start' = batch_start + 1
    /\ batch_limit' = Min(batch_start + 1 + samples_in_batch, sample_range[2])
    /\ first_phase' = 2 * (batch_start + 1)
    /\ saved_phase_paths' = [i \in 0 .. phases_in_batch - 1 |-> 0]
    /\ active_phases' = [i \in 0 .. samples_in_batch - 1 |-> 0]
    /\ diploid_region' = [i \in 0 .. samples_in_batch - 1 |-> TRUE]
    /\ nonvariant_starts' = [i \in 0 .. phases_in_batch - 1 |-> 0]
    /\ appended' = [i \in 0 .. phases_in_batch - 1 |-> <<>>]
    /\ pc' = "batch"
    /\ UNCHANGED <<inputs, active_phase_threads, output, node_length, history, sample_range,
                   next_record, variants_processed, sample_number, phase_offset,
                   alt_index>>

\* a batch change that keeps the ploidy flags of the batch before
NextBatch_keeps_ploidy ==
    /\ pc = "next_batch"
    /\ batch_start' = batch_limit
    /\ batch_limit' = Min(batch_limit + samples_in_batch, sample_range[2])
    /\ first_phase' = 2 * batch_limit
    /\ saved_phase_paths' = [i \in 0 .. phases_in_batch - 1 |-> 0]
    /\ active_phases' = [i \in 0 .. samples_in_batch - 1 |-> 0]
    /\ nonvariant_starts' = [i \in 0 .. phases_in_batch - 1 |-> 0]
    /\ appended' = [i \in 0 .. phases_in_batch - 1 |-> <<>>]
    /\ pc' = "batch"
    /\ UNCHANGED <<inputs, active_phase_threads, diploid_region, output, node_length,
                   history, sample_range, next_record, variants_processed, sample_number,
                   phase_offset, alt_index>>

\* a batch change that keeps the cursors of the batch before
NextBatch_keeps_cursors ==
    /\ pc = "next_batch"
    /\ batch_start' = batch_limit
    /\ batch_limit' = Min(batch_limit + samples_in_batch, sample_range[2])
    /\ first_phase' = 2 * batch_limit
    /\ saved_phase_paths' = [i \in 0 .. phases_in_batch - 1 |-> 0]
    /\ active_phases' = [i \in 0 .. samples_in_batch - 1 |-> 0]
    /\ diploid_region' = [i \in 0 .. samples_in_batch - 1 |-> TRUE]
    /\ appended' = [i \in 0 .. phases_in_batch - 1 |-> <<>>]
    /\ pc' = "batch"
    /\ UNCHANGED <<inputs, active_phase_threads, nonvariant_starts, output, node_length,
                   history, sample_range, next_record, variants_processed, sample_number,
                   phase_offset, alt_index>>

\* lines 1019-1026
NextBatch ==
    /\ pc = "next_batch"
    /\ batch_start' = batch_limit
    /\ batch_limit' = Min(batch_limit + samples_in_batch, sample_range[2])
    /\ first_phase' = 2 * batch_limit
    /\ saved_phase_paths' = [i \in 0 .. phases_in_batch - 1 |-> 0]
    /\ active_phases' = [i \in 0 .. samples_in_batch - 1 |-> 0]
    /\ diploid_region' = [i \in 0 .. samples_in_batch - 1 |-> TRUE]
    /\ nonvariant_starts' = [i \in 0 .. phases_in_batch - 1 |-> 0]
    /\ appended' = [i \in 0 .. phases_in_batch - 1 |-> <<>>]
    /\ pc' = "batch"
    /\ UNCHANGED <<inputs, active_phase_threads, output, node_length, history, sample_range,
                   next_record, variants_processed, sample_number, phase_offset,
                   alt_index>>

\* a flush that counts the haplotypes of the processed samples only
Flush_counts_range ==
    /\ pc = "done"
    /\ IF gbwt_name
       THEN /\ xg_thread_names' = thread_names
            /\ haplotype_count' = (sample_range[2] - sample_range[1]) * 2
            /\ UNCHANGED <<all_phase_threads, xg_threads>>
       ELSE IF binary_haplotype_output
       THEN UNCHANGED <<all_phase_threads, xg_threads, xg_thread_names, haplotype_count>>
       ELSE /\ xg_threads' = all_phase_threads
            /\ xg_thread_names' = thread_names
            /\ all_phase_threads' = <<>>
            /\ haplotype_count' = (sample_range[2] - sample_range[1]) * 2
    /\ pc' = "saved"
    /\ UNCHANGED <<inputs, batch_state, thread_names, gbwt_builder, binary_file,
                   node_length, history, sample_range, batch_start, batch_limit,
                   first_phase, next_record, variants_processed, sample_number,
                   phase_offset, alt_index>>

\* lines 1031-1063: the sink is flushed and the xg index gets its metadata
Flush ==
    /\ pc = "done"
    /\ IF gbwt_name
       THEN /\ xg_thread_names' = thread_names
            /\ haplotype_count' = NumSamples * 2
            /\ UNCHANGED <<all_phase_threads, xg_threads>>
       ELSE IF binary_haplotype_output
       THEN UNCHANGED <<all_phase_threads, xg_threads, xg_thread_names, haplotype_count>>
       ELSE /\ xg_threads' = all_phase_threads
            /\ xg_thread_names' = thread_names
            /\ all_phase_threads' = <<>>
            /\ haplotype_count' = NumSamples * 2
    /\ pc' = "saved"
    /\ UNCHANGED <<inputs, batch_state, thread_names, gbwt_builder, binary_file,
                   node_length, history, sample_range, batch_start, batch_limit,
                   first_phase, next_record, variants_processed, sample_number,
                   phase_offset, alt_index>>

Next ==
    \/ RejectBatchSize
    \/ RejectBothSinks
    \/ Flush
    \/ StartContig
    \/ BeginBatch
    \/ EndContig
    \/ SkipVariant
    \/ TakeVariant
    \/ EndOfVariants
    \/ HandleSample
    \/ HandlePhase
    \/ NextSample
    \/ EndVariant
    \/ FinishBatch
    \/ FinishSample
    \/ FinishedSamples
    \/ NextBatch

Spec == Init /\ [][Next]_vars

(***************************************************************************)
(* The same inputs run again with the next batch size: what a run handed to *)
(* the sink is kept in runs, and the program starts over.                   *)
(***************************************************************************)
RunScenarios == {Scenario(<<S1, N2, S2>>, {}), Scenario(<<S1, N2, S2>>, {Edge(6, 3)})}
RunColumns == {<<Genotype("1", "|", "1"), <<".">>, Genotype("0", "|", "1")>>,
               <<Genotype("0", "|", "1"), <<".">>, <<"1">>>>,
               <<<<"1">>, <<".">>, Genotype("1", "|", "1")>>,
               <<Genotype("1", "|", "1"), <<".">>, Genotype("0", "/", "1")>>}

InitRuns ==
    /\ \E sc \in RunScenarios :
          /\ edges = sc.edges
          /\ \E columns \in [Samples -> RunColumns] :
                variant_file = VariantFile(sc.sites,
                    [k \in 1 .. Len(sc.sites) |-> [s \in Samples |-> columns[s][k]]])
    /\ range_first = 0
    /\ range_last = NumSamples - 1
    /\ samples_in_batch = 0
    /\ gbwt_name \in BOOLEAN
    /\ binary_haplotype_output = gbwt_name
    /\ alt_paths = AllAltPaths
    /\ discard_overlaps \in BOOLEAN
    /\ pc = "options"
    /\ sample_range = ParseRange(range_first, range_last)
    /\ batch_start = 0
    /\ batch_limit = 0
    /\ first_phase = 0
    /\ active_phase_threads = <<>>
    /\ saved_phase_paths = <<>>
    /\ active_phases = <<>>
    /\ diploid_region = <<>>
    /\ nonvariant_starts = <<>>
    /\ all_phase_threads = <<>>
    /\ thread_names = <<>>
    /\ gbwt_builder = <<>>
    /\ binary_file = <<>>
    /\ xg_threads = <<>>
    /\ xg_thread_names = <<>>
    /\ haplotype_count = 0
    /\ node_length = <<>>
    /\ next_record = 1
    /\ variants_processed = 0
    /\ sample_number = 0
    /\ phase_offset = 0
    /\ alt_index = <<-1, -1>>
    /\ entry = <<>>
    /\ runs = <<>>
    /\ batches = <<>>
    /\ at_variant = <<>>
    /\ appended = <<>>

Rerun ==
    /\ pc \in {"done", "error"}
    /\ samples_in_batch < NumSamples
    /\ runs' = Append(runs, [samples_in_batch |-> samples_in_batch, outcome |-> pc,
                             names |-> thread_names, threads |-> all_phase_threads])
    /\ samples_in_batch' = samples_in_batch + 1
    /\ pc' = "options"
    /\ sample_range' = ParseRange(range_first, range_last)
    /\ batch_start' = 0
    /\ batch_limit' = 0
    /\ first_phase' = 0
    /\ active_phase_threads' = <<>>
    /\ saved_phase_paths' = <<>>
    /\ active_phases' = <<>>
    /\ diploid_region' = <<>>
    /\ nonvariant_starts' = <<>>
    /\ all_phase_threads' = <<>>
    /\ thread_names' = <<>>
    /\ gbwt_builder' = <<>>
    /\ binary_file' = <<>>
    /\ xg_threads' = <<>>
    /\ xg_thread_names' = <<>>
    /\ haplotype_count' = 0
    /\ batches' = <<>>
    /\ at_variant' = <<>>
    /\ appended' = <<>>
    /\ node_length' = <<>>
    /\ next_record' = 1
    /\ variants_processed' = 0
    /\ sample_number' = 0
    /\ phase_offset' = 0
    /\ alt_index' = <<-1, -1>>
    /\ entry' = <<>>
    /\ UNCHANGED <<variant_file, alt_paths, edges, range_first, range_last,
                   discard_overlaps, gbwt_name, binary_haplotype_output>>

NextRuns == Next \/ Rerun

SpecRuns == InitRuns /\ [][NextRuns]_vars

(***************************************************************************)
(* The runs with every choice of the sink options -G and -H.                *)
(***************************************************************************)
InitSinks ==
    /\ \E sc \in RunScenarios :
          /\ edges = sc.edges
          /\ \E columns \in [Samples -> RunColumns] :
                variant_file = VariantFile(sc.sites,
                    [k \in 1 .. Len(sc.sites) |-> [s \in Samples |-> columns[s][k]]])
    /\ range_first \in {0, 1}
    /\ range_last = NumSamples - 1
    /\ samples_in_batch \in {0, MaxBatch}
    /\ gbwt_name \in BOOLEAN
    /\ binary_haplotype_output \in BOOLEAN
    /\ alt_paths = AllAltPaths
    /\ discard_overlaps = FALSE
    /\ pc = "options"
    /\ sample_range = ParseRange(range_first, range_last)
    /\ batch_start = 0
    /\ batch_limit = 0
    /\ first_phase = 0
    /\ active_phase_threads = <<>>
    /\ saved_phase_paths = <<>>
    /\ active_phases = <<>>
    /\ diploid_region = <<>>
    /\ nonvariant_starts = <<>>
    /\ all_phase_threads = <<>>
    /\ thread_names = <<>>
    /\ gbwt_builder = <<>>
    /\ binary_file = <<>>
    /\ xg_threads = <<>>
    /\ xg_thread_names = <<>>
    /\ haplotype_count = 0
    /\ node_length = <<>>
    /\ next_record = 1
    /\ variants_processed = 0
    /\ sample_number = 0
    /\ phase_offset = 0
    /\ alt_index = <<-1, -1>>
    /\ entry = <<>>
    /\ runs = <<>>
    /\ batches = <<>>
    /\ at_variant = <<>>
    /\ appended = <<>>

SpecSinks == InitSinks /\ [][Next]_vars

(***************************************************************************)
(* The runs of an insertion whose reference allele has no node, in graphs   *)
(* with every choice of edges into the inserted node and with the inserted  *)
(* node in either orientation.                                              *)
(***************************************************************************)
\* edges into node 8 from an earlier and a later reference node, from a node off the
\* reference, from itself, and the edge that leaves node 8 by its start side
EdgesIntoAlt == {Edge(1, 8), Edge(253, 8), Edge(6, 8), Edge(8, 8),
                 <<Encode(8, TRUE), Encode(5, FALSE)>>}
EdgesOfAlt == {Edge(3, 8), Edge(8, 253)}
\* the paths of i1 as built, with the alt traversed in reverse, with no path at all
\* for the reference allele, and with node 253 as the reference allele (node 8 then
\* replaces it), the alt path there or not
SitePaths ==
    {AllAltPaths,
     [key \in DOMAIN AllAltPaths |->
         IF key = <<"i1", 1>> THEN <<[node_id |-> 8, is_reverse |-> TRUE]>>
         ELSE AllAltPaths[key]],
     [key \in DOMAIN AllAltPaths \ {<<"i1", 0>>} |-> AllAltPaths[key]],
     [key \in DOMAIN AllAltPaths |->
         IF key = <<"i1", 0>> THEN <<Fwd(253)>> ELSE AllAltPaths[key]],
     [key \in DOMAIN AllAltPaths \ {<<"i1", 1>>} |->
         IF key = <<"i1", 0>> THEN <<Fwd(253)>> ELSE AllAltPaths[key]]}
SiteColumns == {<<<<".">>, Genotype("1", "|", "1")>>, <<<<".">>, Genotype("0", "|", "1")>>,
                <<<<".">>, <<"1">>>>}

InitSites ==
    /\ \E removed \in SUBSET EdgesOfAlt, added \in SUBSET EdgesIntoAlt :
          edges = (FullEdges \ removed) \cup added
    /\ alt_paths \in SitePaths
    /\ \E column \in SiteColumns :
          variant_file = VariantFile(<<N1, I1>>,
              [k \in 1 .. 2 |-> [s \in Samples |-> column[k]]])
    /\ range_first = 0
    /\ range_last = NumSamples - 1
    /\ samples_in_batch \in {0, MaxBatch}
    /\ gbwt_name \in BOOLEAN
    /\ binary_haplotype_output = gbwt_name
    /\ discard_overlaps = FALSE
    /\ pc = "options"
    /\ sample_range = ParseRange(range_first, range_last)
    /\ batch_start = 0
    /\ batch_limit = 0
    /\ first_phase = 0
    /\ active_phase_threads = <<>>
    /\ saved_phase_paths = <<>>
    /\ active_phases = <<>>
    /\ diploid_region = <<>>
    /\ nonvariant_starts = <<>>
    /\ all_phase_threads = <<>>
    /\ thread_names = <<>>
    /\ gbwt_builder = <<>>
    /\ binary_file = <<>>
    /\ xg_threads = <<>>
    /\ xg_thread_names = <<>>
    /\ haplotype_count = 0
    /\ node_length = <<>>
    /\ next_record = 1
    /\ variants_processed = 0
    /\ sample_number = 0
    /\ phase_offset = 0
    /\ alt_index = <<-1, -1>>
    /\ entry = <<>>
    /\ runs = <<>>
    /\ batches = <<>>
    /\ at_variant = <<>>
    /\ appended = <<>>

SpecSites == InitSites /\ [][Next]_vars

(***************************************************************************)
(* The runs of two sites with every shape of genotype string.               *)
(***************************************************************************)
GenotypeShapes ==
    {<<>>, <<"|">>, <<"|", "1">>, <<"1", "|">>, <<".", "|">>,
     Genotype("0", "/", "1"), Genotype(".", "/", "."),
     <<"0">>, <<"1">>, <<".">>,
     Genotype("0", "|", "1"), Genotype("1", "|", "0"), Genotype("1", "|", "1"),
     Genotype(".", "|", "1"), Genotype("1", "|", "."), Genotype(".", "|", ".")}

InitGenotypes ==
    /\ edges = FullEdges
    /\ \E first \in GenotypeShapes, last \in GenotypeShapes :
          variant_file = VariantFile(<<S1, N2, S2>>,
              [k \in 1 .. 3 |-> [s \in Samples |->
                  IF k = 1 THEN first ELSE IF k = 2 THEN <<".">> ELSE last]])
    /\ range_first = 0
    /\ range_last = NumSamples - 1
    /\ samples_in_batch \in {0, MaxBatch}
    /\ gbwt_name \in BOOLEAN
    /\ binary_haplotype_output = gbwt_name
    /\ alt_paths = AllAltPaths
    /\ discard_overlaps = FALSE
    /\ pc = "options"
    /\ sample_range = ParseRange(range_first, range_last)
    /\ batch_start = 0
    /\ batch_limit = 0
    /\ first_phase = 0
    /\ active_phase_threads = <<>>
    /\ saved_phase_paths = <<>>
    /\ active_phases = <<>>
    /\ diploid_region = <<>>
    /\ nonvariant_starts = <<>>
    /\ all_phase_threads = <<>>
    /\ thread_names = <<>>
    /\ gbwt_builder = <<>>
    /\ binary_file = <<>>
    /\ xg_threads = <<>>
    /\ xg_thread_names = <<>>
    /\ haplotype_count = 0
    /\ node_length = <<>>
    /\ next_record = 1
    /\ variants_processed = 0
    /\ sample_number = 0
    /\ phase_offset = 0
    /\ alt_index = <<-1, -1>>
    /\ entry = <<>>
    /\ runs = <<>>
    /\ batches = <<>>
    /\ at_variant = <<>>
    /\ appended = <<>>

SpecGenotypes == InitGenotypes /\ [][Next]_vars

(***************************************************************************)
(* A run, and then the run of the same records with allele 0 written in the *)
(* place of every missing allele; what the first run handed to the sink is  *)
(* kept in runs.                                                            *)
(***************************************************************************)
TokenShapes ==
    {<<".">>, <<"1">>, Genotype(".", "|", "1"), Genotype("1", "|", "."),
     Genotype(".", "|", "."), Genotype("1", "|", "1"), Genotype("0", "/", "1"),
     Genotype(".", "/", ".")}
ReferenceForMissing(genotype) ==
    [k \in 1 .. Len(genotype) |-> IF genotype[k] = "." THEN "0" ELSE genotype[k]]

InitTokens ==
    /\ edges \in {FullEdges, FullEdges \ {Edge(6, 3)}}
    /\ \E first \in TokenShapes, last \in TokenShapes :
          variant_file = VariantFile(<<S1, N2, S2>>,
              [k \in 1 .. 3 |-> [s \in Samples |->
                  IF k = 1 THEN first ELSE IF k = 2 THEN <<".">> ELSE last]])
    /\ range_first = 0
    /\ range_last = NumSamples - 1
    /\ samples_in_batch \in {0, MaxBatch}
    /\ gbwt_name \in BOOLEAN
    /\ binary_haplotype_output = gbwt_name
    /\ alt_paths = AllAltPaths
    /\ discard_overlaps = FALSE
    /\ pc = "options"
    /\ sample_range = ParseRange(range_first, range_last)
    /\ batch_start = 0
    /\ batch_limit = 0
    /\ first_phase = 0
    /\ active_phase_threads = <<>>
    /\ saved_phase_paths = <<>>
    /\ active_phases = <<>>
    /\ diploid_region = <<>>
    /\ nonvariant_starts = <<>>
    /\ all_phase_threads = <<>>
    /\ thread_names = <<>>
    /\ gbwt_builder = <<>>
    /\ binary_file = <<>>
    /\ xg_threads = <<>>
    /\ xg_thread_names = <<>>
    /\ haplotype_count = 0
    /\ node_length = <<>>
    /\ next_record = 1
    /\ variants_processed = 0
    /\ sample_number = 0
    /\ phase_offset = 0
    /\ alt_index = <<-1, -1>>
    /\ entry = <<>>
    /\ runs = <<>>
    /\ batches = <<>>
    /\ at_variant = <<>>
    /\ appended = <<>>

RerunWithReference ==
    /\ pc = "done"
    /\ runs = <<>>
    /\ runs' = <<[names |-> thread_names, threads |-> all_phase_threads]>>
    /\ variant_file' =
          [k \in 1 .. Len(variant_file) |->
              [variant_file[k] EXCEPT !.genotypes =
                  [s \in Samples |-> ReferenceForMissing(variant_file[k].genotypes[s])]]]
    /\ pc' = "options"
    /\ sample_range' = ParseRange(range_first, range_last)
    /\ batch_start' = 0
    /\ batch_limit' = 0
    /\ first_phase' = 0
    /\ active_phase_threads' = <<>>
    /\ saved_phase_paths' = <<>>
    /\ active_phases' = <<>>
    /\ diploid_region' = <<>>
    /\ nonvariant_starts' = <<>>
    /\ all_phase_threads' = <<>>
    /\ thread_names' = <<>>
    /\ gbwt_builder' = <<>>
    /\ binary_file' = <<>>
    /\ xg_threads' = <<>>
    /\ xg_thread_names' = <<>>
    /\ haplotype_count' = 0
    /\ batches' = <<>>
    /\ at_variant' = <<>>
    /\ appended' = <<>>
    /\ node_length' = <<>>
    /\ next_record' = 1
    /\ variants_processed' = 0
    /\ sample_number' = 0
    /\ phase_offset' = 0
    /\ alt_index' = <<-1, -1>>
    /\ entry' = <<>>
    /\ UNCHANGED <<alt_paths, edges, range_first, range_last, samples_in_batch,
                   discard_overlaps, gbwt_name, binary_haplotype_output>>

NextTokens == Next \/ RerunWithReference

SpecTokens == InitTokens /\ [][NextTokens]_vars

(***************************************************************************)
(* The runs in which the genotype of the last sample may be one std::stoi   *)
(* throws on, with every choice of the sink options: the run then ends at   *)
(* that record of the last batch, after the batches before it.              *)
(***************************************************************************)
ErrorColumns == {<<Genotype("1", "|", "1"), <<".">>, <<"x">>>>,
                 <<Genotype("0", "|", "1"), <<".">>, Genotype("1", "|", "x")>>,
                 <<Genotype("1", "|", "1"), <<".">>, Genotype("0", "|", "1")>>}

InitErrors ==
    /\ \E sc \in RunScenarios :
          /\ edges = sc.edges
          /\ \E columns \in [0 .. NumSamples - 2 -> RunColumns], last \in ErrorColumns :
                variant_file = VariantFile(sc.sites,
                    [k \in 1 .. Len(sc.sites) |->
                        [s \in Samples |-> IF s = NumSamples - 1 THEN last[k]
                                           ELSE columns[s][k]]])
    /\ range_first = 0
    /\ range_last = NumSamples - 1
    /\ samples_in_batch \in {0, MaxBatch}
    /\ gbwt_name \in BOOLEAN
    /\ binary_haplotype_output \in BOOLEAN
    /\ alt_paths = AllAltPaths
    /\ discard_overlaps = FALSE
    /\ pc = "options"
    /\ sample_range = ParseRange(range_first, range_last)
    /\ batch_start = 0
    /\ batch_limit = 0
    /\ first_phase = 0
    /\ active_phase_threads = <<>>
    /\ saved_phase_paths = <<>>
    /\ active_phases = <<>>
    /\ diploid_region = <<>>
    /\ nonvariant_starts = <<>>
    /\ all_phase_threads = <<>>
    /\ thread_names = <<>>
    /\ gbwt_builder = <<>>
    /\ binary_file = <<>>
    /\ xg_threads = <<>>
    /\ xg_thread_names = <<>>
    /\ haplotype_count = 0
    /\ node_length = <<>>
    /\ next_record = 1
    /\ variants_processed = 0
    /\ sample_number = 0
    /\ phase_offset = 0
    /\ alt_index = <<-1, -1>>
    /\ entry = <<>>
    /\ runs = <<>>
    /\ batches = <<>>
    /\ at_variant = <<>>
    /\ appended = <<>>

SpecErrors == InitErrors /\ [][Next]_vars

(***************************************************************************)
(* The runs with every batch size and a range of sample ranges, the empty   *)
(* ones included.  The program is sequential: whenever it has a next step,  *)
(* it takes it.                                                             *)
(***************************************************************************)
InitLoop ==
    /\ \E sc \in RunScenarios :
          /\ edges = sc.edges
          /\ \E column \in RunColumns :
                variant_file = VariantFile(sc.sites,
                    [k \in 1 .. Len(sc.sites) |-> [s \in Samples |-> column[k]]])
    /\ range_first \in {0, 1, NumSamples}
    /\ range_last \in {0, NumSamples - 2, NumSamples - 1, NumSamples, SIZE_MAX}
    /\ samples_in_batch \in 0 .. MaxBatch
    /\ gbwt_name \in BOOLEAN
    /\ binary_haplotype_output = gbwt_name
    /\ alt_paths = AllAltPaths
    /\ discard_overlaps = FALSE
    /\ pc = "options"
    /\ sample_range = ParseRange(range_first, range_last)
    /\ batch_start = 0
    /\ batch_limit = 0
    /\ first_phase = 0
    /\ active_phase_threads = <<>>
    /\ saved_phase_paths = <<>>
    /\ active_phases = <<>>
    /\ diploid_region = <<>>
    /\ nonvariant_starts = <<>>
    /\ all_phase_threads = <<>>
    /\ thread_names = <<>>
    /\ gbwt_builder = <<>>
    /\ binary_file = <<>>
    /\ xg_threads = <<>>
    /\ xg_thread_names = <<>>
    /\ haplotype_count = 0
    /\ node_length = <<>>
    /\ next_record = 1
    /\ variants_processed = 0
    /\ sample_number = 0
    /\ phase_offset = 0
    /\ alt_index = <<-1, -1>>
    /\ entry = <<>>
    /\ runs = <<>>
    /\ batches = <<>>
    /\ at_variant = <<>>
    /\ appended = <<>>

\* Next is enabled exactly while the run has not come to its end
Running == pc \notin {"saved", "error", "aborted"}
\* weak fairness of Next, WF_vars(Next), with ENABLED <<Next>>_vars written as Running
Progress == []<>(~Running) \/ []<><<Next>>_vars
SpecLoop == InitLoop /\ [][Next]_vars /\ Progress

(***************************************************************************)
(* The runs in which samples are never active, or are closed into the       *)
(* inactive state, with the cursor before or at the end of the contig.      *)
(***************************************************************************)
\* x2: a site inside node 5 that the graph construction skipped (no path)
X2 == Site("x2", 9, <<"C">>, <<<<"G">>>>)
EndScenarios == {Scenario(<<S1, N2, S2>>, {}), Scenario(<<S1, N2, S2>>, {Edge(6, 3)}),
                 Scenario(<<S2, N2, E1>>, {}), Scenario(<<E1, N2, X2>>, {})}
\* empty, without a second allele, unphased, phased, haploid
EndShapes == {<<>>, <<"1", "|">>, Genotype("0", "/", "1"), Genotype("1", "|", "1"),
              Genotype("0", "|", "1"), <<"1">>}

InitEnds ==
    /\ \E sc \in EndScenarios :
          /\ edges = sc.edges
          /\ \E first \in EndShapes, last \in EndShapes :
                variant_file = VariantFile(sc.sites,
                    [k \in 1 .. 3 |-> [s \in Samples |->
                        IF k = 1 THEN first ELSE IF k = 2 THEN <<".">> ELSE last]])
    /\ range_first = 0
    /\ range_last = NumSamples - 1
    /\ samples_in_batch \in {0, MaxBatch}
    /\ gbwt_name \in BOOLEAN
    /\ binary_haplotype_output = gbwt_name
    /\ alt_paths = AllAltPaths
    /\ discard_overlaps = FALSE
    /\ pc = "options"
    /\ sample_range = ParseRange(range_first, range_last)
    /\ batch_start = 0
    /\ batch_limit = 0
    /\ first_phase = 0
    /\ active_phase_threads = <<>>
    /\ saved_phase_paths = <<>>
    /\ active_phases = <<>>
    /\ diploid_region = <<>>
    /\ nonvariant_starts = <<>>
    /\ all_phase_threads = <<>>
    /\ thread_names = <<>>
    /\ gbwt_builder = <<>>
    /\ binary_file = <<>>
    /\ xg_threads = <<>>
    /\ xg_thread_names = <<>>
    /\ haplotype_count = 0
    /\ node_length = <<>>
    /\ next_record = 1
    /\ variants_processed = 0
    /\ sample_number = 0
    /\ phase_offset = 0
    /\ alt_index = <<-1, -1>>
    /\ entry = <<>>
    /\ runs = <<>>
    /\ batches = <<>>
    /\ at_variant = <<>>
    /\ appended = <<>>

SpecEnds == InitEnds /\ [][Next]_vars

(***************************************************************************)
(* The runs of two deletions, each without a path for its alt, that start   *)
(* at the same record position: d2 deletes node 2, d1 deletes nodes 2 and   *)
(* 3.  The edges that jump over the deleted nodes are there or not.         *)
(***************************************************************************)
D2 == Site("d2", 3, <<"C", "A">>, <<<<"C">>>>)
DeletionPaths == AllAltPaths @@ (<<"d2", 0>> :> <<Fwd(2)>>)
DeletionEdges == {Edge(1, 3), Edge(1, 253)}
DeletionShapes == {Genotype("1", "|", "1"), Genotype("0", "|", "1"), Genotype("0", "|", "0"),
                   Genotype("0", "/", "1"), <<"1">>}

InitDeletions ==
    /\ \E jumps \in SUBSET DeletionEdges : edges = (FullEdges \ DeletionEdges) \cup jumps
    /\ \E first \in DeletionShapes, second \in DeletionShapes :
          variant_file = VariantFile(<<D2, D1, N2>>,
              [k \in 1 .. 3 |-> [s \in Samples |->
                  IF k = 1 THEN first ELSE IF k = 2 THEN second ELSE <<".">>]])
    /\ range_first = 0
    /\ range_last = NumSamples - 1
    /\ samples_in_batch \in {0, MaxBatch}
    /\ gbwt_name \in BOOLEAN
    /\ binary_haplotype_output = gbwt_name
    /\ alt_paths = DeletionPaths
    /\ discard_overlaps \in BOOLEAN
    /\ pc = "options"
    /\ sample_range = ParseRange(range_first, range_last)
    /\ batch_start = 0
    /\ batch_limit = 0
    /\ first_phase = 0
    /\ active_phase_threads = <<>>
    /\ saved_phase_paths = <<>>
    /\ active_phases = <<>>
    /\ diploid_region = <<>>
    /\ nonvariant_starts = <<>>
    /\ all_phase_threads = <<>>
    /\ thread_names = <<>>
    /\ gbwt_builder = <<>>
    /\ binary_file = <<>>
    /\ xg_threads = <<>>
    /\ xg_thread_names = <<>>
    /\ haplotype_count = 0
    /\ node_length = <<>>
    /\ next_record = 1
    /\ variants_processed = 0
    /\ sample_number = 0
    /\ phase_offset = 0
    /\ alt_index = <<-1, -1>>
    /\ entry = <<>>
    /\ runs = <<>>
    /\ batches = <<>>
    /\ at_variant = <<>>
    /\ appended = <<>>

SpecDeletions == InitDeletions /\ [][Next]_vars

(***************************************************************************)
(* Properties.                                                              *)
(***************************************************************************)
Allocated == pc \notin {"options", "error"}
PhasesOfBatch == 0 .. phases_in_batch - 1

\* the emitted fragments (positions in the sink) of one phase slot of one sample
FragmentsOf(sample, slot) ==
    {k \in 1 .. Len(thread_names) :
        thread_names[k][2] = sample_names[sample] /\ thread_names[k][4] = slot}

IsWalk(thread) ==
    \A k \in 1 .. Len(thread) - 1 :
        has_edge(edges, Encode(thread[k].node_id, thread[k].is_reverse),
                 Encode(thread[k + 1].node_id, thread[k + 1].is_reverse))

OnReference(visit) == visit.node_id \in DOMAIN by_id

\* C1: whenever the reference path's own edges are in the graph, every two
\* consecutive node visits of every fragment handed to the sink are joined by an
\* edge of the graph.
C1_FragmentsAreWalks ==
    ReferenceEdges \subseteq edges =>
        \A k \in 1 .. Len(all_phase_threads) : IsWalk(all_phase_threads[k])

\* C1 witness: a split has happened (a phase has two fragments) in a graph that lacks
\* an edge, and a fragment goes from the reference into an alt and back.
C1_Witness ==
    /\ edges # FullEdges
    /\ \E s \in Samples, slot \in {0, 1} : Cardinality(FragmentsOf(s, slot)) >= 2
    /\ \E k \in 1 .. Len(all_phase_threads) :
          \E j \in 2 .. Len(all_phase_threads[k]) - 1 :
              /\ OnReference(all_phase_threads[k][j - 1])
              /\ ~OnReference(all_phase_threads[k][j])
              /\ OnReference(all_phase_threads[k][j + 1])

\* C2: within the contig, no two emitted fragments of the same sample and the same
\* phase slot carry the same name.
C2_NamesUnique ==
    \A j, k \in 1 .. Len(thread_names) :
        j # k => thread_names[j] # thread_names[k]

\* C3: the fragment a phase emits k-th (from 0) is named with fragment index k.
C3_IndexIsEmissionOrder ==
    \A k \in 1 .. Len(thread_names) :
        thread_names[k][5] =
            Cardinality({j \in 1 .. k - 1 :
                            /\ thread_names[j][2] = thread_names[k][2]
                            /\ thread_names[j][4] = thread_names[k][4]})

\* what C4 says of one close of phase i (an index into the batch's arrays)
CloseContract(m, i) ==
    LET after == finish_phase(m, i + first_phase, <<"name">>)
    IN IF m.threads[i] = <<>>
       THEN after = m
       ELSE /\ Len(after.out) = Len(m.out) + 1
            /\ SubSeq(after.out, 1, Len(m.out)) = m.out
            /\ Len(after.out[Len(after.out)]) = Len(m.threads[i])
            /\ after.names = Append(m.names, <<"name">>)
            /\ after.saved = [m.saved EXCEPT ![i] = @ + 1]
            /\ after.threads = [m.threads EXCEPT ![i] = <<>>]
            /\ after.starts = m.starts

\* C4: no empty fragment is ever in the sink, the sink and the list of names grow
\* together until the sink is moved into the index, and in every reachable state a close of any phase of the batch does
\* nothing on an empty buffer and, on a non-empty one, emits exactly one fragment,
\* appends exactly one name, adds one to that phase's counter and empties the buffer.
C4_CloseEmitsNonEmpty ==
    /\ \A k \in 1 .. Len(all_phase_threads) : all_phase_threads[k] # <<>>
    /\ pc # "saved" => Len(thread_names) = Len(all_phase_threads)
    /\ Allocated => \A i \in PhasesOfBatch : CloseContract(Captured, i)

\* the paths of the sample being handled were broken when its genotype was read
Broke ==
    LET s == sample_number - batch_start
    IN \/ diploid_region[s] # entry.diploid
       \/ (active_phases[s] = 0 /\ entry.active > 0)

JustBroke == pc = "phase" /\ phase_offset = 0 /\ Broke

\* C4 witness: the two phases of a sample have just been closed at a variant, one with
\* an empty buffer (nothing emitted) and one with visits (one fragment emitted).
C4_Witness ==
    /\ JustBroke
    /\ entry.active = 2
    /\ edges = FullEdges
    /\ Len(all_phase_threads) = entry.emitted + 1

\* the sample being handled: its place in the batch, its two phases, its genotype
Here == sample_number - batch_start
Slot(k) == 2 * sample_number - first_phase + k
GenotypeHere == variant_file[next_record].genotypes[sample_number]
PloidyChanged == diploid_region[Here] # entry.diploid
\* the fragments emitted for a slot of the sample since its genotype was read
EmittedHere(k) == {j \in FragmentsOf(sample_number, k) : j > entry.emitted}

\* the sample's genotype at the previous record, when that record was handled
HasPrevious == next_record > 1 /\ isDNA(variant_file[next_record - 1])
PreviousGenotype == variant_file[next_record - 1].genotypes[sample_number]
\* a genotype that calls no allele: no active phase, or only missing alleles
CallsNothing(genotype) ==
    LET parsed == ParseGenotype(genotype, TRUE)
    IN \A k \in 1 .. 2 : k <= parsed.new_active_phases => parsed.alt_index[k] = -1

\* C5 as claimed: a '.' genotype changes no buffer of the sample and emits nothing at
\* that variant, whatever the sample's state was; and a sample that called nothing at
\* the previous variant and calls an allele now starts from empty buffers.
C5_MissingNeverTouches ==
    pc = "phase" =>
        /\ GenotypeHere = <<".">> =>
              /\ \A k \in {0, 1} : active_phase_threads[Slot(k)] = entry.threads[Slot(k)]
              /\ Len(all_phase_threads) = entry.emitted
        /\ (phase_offset = 0 /\ HasPrevious /\ CallsNothing(PreviousGenotype)
                /\ ~CallsNothing(GenotypeHere)) =>
              \A k \in {0, 1} : active_phase_threads[Slot(k)] = <<>>

\* C5 amended: a '.' genotype is a haploid call with a missing allele.  When the
\* sample's ploidy flag was haploid it changes no buffer, cursor or counter of the
\* sample and emits nothing, and the buffer is the one the next call goes on with.
\* When the flag was diploid the ploidy change closes the sample's phases at that
\* variant: both buffers are empty, and every phase that held visits has emitted.
\* A sample with no active phase has empty buffers, so a call after a genotype
\* without active phase starts from an empty buffer.
C5_MissingAllele ==
    /\ (pc = "phase" /\ GenotypeHere = <<".">> /\ ~entry.diploid) =>
          /\ \A k \in {0, 1} :
                /\ active_phase_threads[Slot(k)] = entry.threads[Slot(k)]
                /\ nonvariant_starts[Slot(k)] = entry.starts[Slot(k)]
                /\ saved_phase_paths[Slot(k)] = entry.saved[Slot(k)]
          /\ Len(all_phase_threads) = entry.emitted
    /\ (pc = "phase" /\ GenotypeHere = <<".">> /\ entry.diploid) =>
          /\ \A k \in {0, 1} : active_phase_threads[Slot(k)] = <<>>
          /\ \A k \in {0, 1} :
                (k < entry.active /\ entry.threads[Slot(k)] # <<>>) => EmittedHere(k) # {}
    /\ Allocated =>
          \A s \in 0 .. samples_in_batch - 1 :
              active_phases[s] = 0 =>
                  active_phase_threads[2 * s] = <<>> /\ active_phase_threads[2 * s + 1] = <<>>

\* C5 witness: a sample whose phases were closed at an earlier variant is haploid with
\* visits in its buffer, and has read '.' and passed over its missing allele.
C5_Witness ==
    /\ pc = "phase"
    /\ phase_offset = 1
    /\ GenotypeHere = <<".">>
    /\ ~entry.diploid
    /\ entry.threads[Slot(0)] # <<>>
    /\ entry.emitted > 0

\* the visit append_reference_mappings_until would add first from a cursor
NextReference(cursor) == node_side_to_gbwt(by_start[find_position(cursor)].side)

\* the fragments the close of slot k at the record's position emits, from the state
\* the phase had when the genotype was read: one if the buffer, extended with the
\* reference up to the position, holds a visit; one more if the first reference
\* visit of the extension has no edge from the buffer's last visit
ExpectedAtClose(k) ==
    LET buffer == entry.threads[Slot(k)]
        extends == entry.starts[Slot(k)] < Position /\ entry.starts[Slot(k)] < path_length
        split == /\ buffer # <<>>
                 /\ extends
                 /\ ~has_edge(edges, buffer[Len(buffer)], NextReference(entry.starts[Slot(k)]))
    IN (IF buffer # <<>> \/ extends THEN 1 ELSE 0) + (IF split THEN 1 ELSE 0)

DiploidToHaploid == JustBroke /\ entry.diploid /\ entry.active = 2 /\ ~diploid_region[Here]

\* C6 as claimed: when a diploid, active sample becomes haploid at a variant, exactly
\* one fragment is emitted for each of its two phases before any allele is attached.
C6_OneFragmentPerPhase ==
    DiploidToHaploid => \A k \in {0, 1} : Cardinality(EmittedHere(k)) = 1

\* C6 amended: when a diploid, active sample becomes haploid at a variant, each of
\* its two phases is closed once before any allele is attached: both buffers are
\* empty, and a phase has emitted one fragment if its buffer, extended with the
\* reference up to the variant, holds a visit (none if it holds none), plus one
\* fragment if the extension itself met a missing edge.
C6_OneClosePerPhase ==
    DiploidToHaploid =>
        \A k \in {0, 1} :
            /\ active_phase_threads[Slot(k)] = <<>>
            /\ Cardinality(EmittedHere(k)) = ExpectedAtClose(k)
            /\ saved_phase_paths[Slot(k)] = entry.saved[Slot(k)] + ExpectedAtClose(k)

\* C6 witness: a diploid-to-haploid change closed one phase with two fragments (a
\* split) or with none (an empty buffer), and the other phase with one.
C6_Witness ==
    /\ DiploidToHaploid
    /\ \E k \in {0, 1} : ExpectedAtClose(k) # 1
    /\ \E k \in {0, 1} : ExpectedAtClose(k) = 1

\* C7: after the paths of a sample are broken at a variant with a ploidy change, its
\* two buffers are empty and both cursors equal the maximum of the two cursors the
\* phases had before the variant; broken without a ploidy change (the sample became
\* inactive), each cursor is the one the phase had before the variant.
C7_CursorsAligned ==
    JustBroke =>
        IF PloidyChanged
        THEN \A k \in {0, 1} :
                /\ nonvariant_starts[Slot(k)] =
                       Max(entry.starts[Slot(0)], entry.starts[Slot(1)])
                /\ active_phase_threads[Slot(k)] = <<>>
        ELSE \A k \in {0, 1} : nonvariant_starts[Slot(k)] = entry.starts[Slot(k)]

\* C7 witness: the paths of an active sample whose two cursors differed were broken
\* at a ploidy change, and fragments came out.
C7_Witness ==
    /\ JustBroke
    /\ PloidyChanged
    /\ entry.active > 0
    /\ entry.starts[Slot(0)] # entry.starts[Slot(1)]
    /\ all_phase_threads # <<>>

\* the node-visit sequences a run emitted for a sample, each with the number of
\* times it was emitted (fragment indexes and the order in the sink left out)
ThreadsOf(names, threads, sample) ==
    LET mine == {k \in 1 .. Len(names) : names[k][2] = sample_names[sample]}
    IN [thread \in {threads[k] : k \in mine} |->
           Cardinality({k \in mine : threads[k] = thread})]

\* C8: when a run over all the samples is done, it has emitted for each sample the
\* same node-visit sequences, each the same number of times, as every earlier run on
\* the same contig, variants and samples with another batch size (1, 2, ... up to
\* the number of samples).
C8_SameThreadsForEveryBatchSize ==
    pc = "done" =>
        \A r \in 1 .. Len(runs) :
            runs[r].outcome = "done" =>
                \A s \in Samples :
                    ThreadsOf(runs[r].names, runs[r].threads, s) =
                    ThreadsOf(thread_names, all_phase_threads, s)

\* C8 witness: the runs with batch sizes 1, 2 and 3 are done; they did not hand the
\* fragments to the sink in the same order, and a sample emitted a sequence twice.
C8_Witness ==
    /\ pc = "done"
    /\ samples_in_batch = 3
    /\ Len(runs) = 3
    /\ runs[2].threads # all_phase_threads
    /\ runs[3].threads # all_phase_threads
    /\ \E s \in Samples :
          \E thread \in DOMAIN ThreadsOf(thread_names, all_phase_threads, s) :
              ThreadsOf(thread_names, all_phase_threads, s)[thread] >= 2

(***************************************************************************)
(* What a phase of the one sample of a run emitted, against its genotypes.  *)
(***************************************************************************)
TheSample == range_first
OneSample == range_first = range_last
\* the allele the phase slot calls at a record (the genotype is diploid there)
Called(k, slot) == ParseGenotype(variant_file[k].genotypes[TheSample], TRUE).alt_index[slot + 1]
PhasedDiploid(genotype) ==
    /\ Len(genotype) = 3
    /\ genotype[2] = "|"
    /\ genotype[1] # "." /\ genotype[3] # "."
\* the span of the reference a record is written over
RecordEnd(k) == variant_file[k].position - 1 + Len(variant_file[k].ref)
NoOverlappingSites ==
    \A k \in 1 .. Len(variant_file) - 1 : RecordEnd(k) <= variant_file[k + 1].position - 1
\* the records that attach something to the phase slot: DNA, a non-reference allele,
\* and the reference or the alt path of the site is in the graph
Attaching(slot) ==
    {k \in 1 .. Len(variant_file) :
        /\ isDNA(variant_file[k])
        /\ Called(k, slot) > 0
        /\ SiteBounds(<<>>, variant_file[k].name, Called(k, slot)).found}
BoundsOf(k, slot) == SiteBounds(<<>>, variant_file[k].name, Called(k, slot))
AltVisits(k, slot) ==
    LET key == <<variant_file[k].name, Called(k, slot)>>
    IN IF key \in DOMAIN alt_paths THEN [i \in 1 .. Len(alt_paths[key]) |-> alt_paths[key][i].node_id]
       ELSE <<>>
\* the reference nodes that start in [from, to), in path order
RECURSIVE ReferenceVisits(_, _, _)
ReferenceVisits(i, from, to) ==
    IF i > Len(by_start) THEN <<>>
    ELSE (IF from <= by_start[i].start /\ by_start[i].start < to
          THEN <<by_start[i].side.node>> ELSE <<>>) \o ReferenceVisits(i + 1, from, to)
\* the walk of the phase slot from the cursor on, through the attaching records from k
RECURSIVE ExpectedFrom(_, _, _)
ExpectedFrom(k, slot, cursor) ==
    IF k > Len(variant_file) THEN ReferenceVisits(1, cursor, path_length)
    ELSE IF k \notin Attaching(slot) THEN ExpectedFrom(k + 1, slot, cursor)
    ELSE ReferenceVisits(1, cursor, BoundsOf(k, slot).first_ref_base)
         \o AltVisits(k, slot)
         \o ExpectedFrom(k + 1, slot, BoundsOf(k, slot).last_ref_base)
\* the reference bases the walk accounts for, each with the number of times: the
\* reference nodes between the sites, and the span each attached allele replaces
RECURSIVE CoveredFrom(_, _, _)
CoveredFrom(k, slot, cursor) ==
    LET between(to) == [b \in 0 .. path_length - 1 |->
                           Cardinality({i \in 1 .. Len(by_start) :
                               /\ cursor <= by_start[i].start /\ by_start[i].start < to
                               /\ by_start[i].start <= b
                               /\ b < by_start[i].start + path_node_length(i)})]
        replaced(bounds) == [b \in 0 .. path_length - 1 |->
                                IF bounds.first_ref_base <= b /\ b < bounds.last_ref_base
                                THEN 1 ELSE 0]
    IN IF k > Len(variant_file) THEN between(path_length)
       ELSE IF k \notin Attaching(slot) THEN CoveredFrom(k + 1, slot, cursor)
       ELSE LET rest == CoveredFrom(k + 1, slot, BoundsOf(k, slot).last_ref_base)
                here == between(BoundsOf(k, slot).first_ref_base)
            IN [b \in 0 .. path_length - 1 |->
                   here[b] + replaced(BoundsOf(k, slot))[b] + rest[b]]
\* the node visits of the fragments of the phase slot, in emission order
RECURSIVE EmittedFrom(_, _)
EmittedFrom(j, slot) ==
    IF j > Len(all_phase_threads) THEN <<>>
    ELSE (IF j \in FragmentsOf(TheSample, slot)
          THEN [i \in 1 .. Len(all_phase_threads[j]) |-> all_phase_threads[j][i].node_id]
          ELSE <<>>) \o EmittedFrom(j + 1, slot)
\* the places where a walk takes a step that is not an edge of the graph
MissingSteps(walk) ==
    {i \in 1 .. Len(walk) - 1 : ~has_edge(edges, Encode(walk[i], FALSE), Encode(walk[i + 1], FALSE))}
CoversOnce(slot) ==
    /\ EmittedFrom(1, slot) = ExpectedFrom(1, slot, 0)
    /\ \A b \in 0 .. path_length - 1 : CoveredFrom(1, slot, 0)[b] = 1

DiploidThroughout ==
    /\ pc = "done"
    /\ OneSample
    /\ discard_overlaps
    /\ variants_processed > 0
    /\ NoOverlappingSites
    /\ \A k \in 1 .. Len(variant_file) :
          PhasedDiploid(variant_file[k].genotypes[TheSample])

\* C9 as claimed: with overlaps discarded, a sample that is diploid and phased with no
\* missing allele at every record of a contig with a variant and no overlapping sites
\* yields exactly two fragments, one per phase, each covering [0, length) exactly once.
C9_TwoFragmentsCoverOnce ==
    DiploidThroughout =>
        \A slot \in {0, 1} :
            /\ Cardinality(FragmentsOf(TheSample, slot)) = 1
            /\ CoversOnce(slot)

\* C9 as the code has it: under the same conditions each phase's fragments, taken in
\* emission order, cover [0, length) exactly once with no gap and no repeated span;
\* a phase yields one fragment and one more for every step of its walk that is not an
\* edge of the graph, so exactly two fragments come out when no such step exists.
C9_FragmentsCoverOnce ==
    DiploidThroughout =>
        \A slot \in {0, 1} :
            /\ Cardinality(FragmentsOf(TheSample, slot)) =
                   1 + Cardinality(MissingSteps(ExpectedFrom(1, slot, 0)))
            /\ CoversOnce(slot)

\* C9 witness: two records, each attaching an alt to phase 1 while phase 0 stays on the
\* reference, and the run ended with exactly one fragment per phase.
C9_Witness ==
    /\ DiploidThroughout
    /\ Len(variant_file) = 2
    /\ Attaching(1) = {1, 2}
    /\ Attaching(0) = {}
    /\ Len(all_phase_threads) = 2
    /\ EmittedFrom(1, 0) # EmittedFrom(1, 1)

SingleVariant ==
    /\ pc = "done"
    /\ OneSample
    /\ Len(variant_file) = 1
    /\ variant_file[1].genotypes[TheSample] = Genotype("0", "|", "1")

\* C10 as claimed: for one sample with genotype 0|1 at the single variant, the output
\* is exactly two fragments: phase 0 is the reference visits of [0, L), and phase 1 is
\* the reference visits of [0, first_ref_base), the alt's visits in path order, and
\* the reference visits of [last_ref_base, L).
C10_SingleVariantTwoFragments ==
    SingleVariant =>
        /\ Len(all_phase_threads) = 2
        /\ Cardinality(FragmentsOf(TheSample, 0)) = 1
        /\ Cardinality(FragmentsOf(TheSample, 1)) = 1
        /\ EmittedFrom(1, 0) = ReferenceVisits(1, 0, path_length)
        /\ BoundsOf(1, 1).found
        /\ EmittedFrom(1, 1) =
               ReferenceVisits(1, 0, BoundsOf(1, 1).first_ref_base)
               \o AltVisits(1, 1)
               \o ReferenceVisits(1, BoundsOf(1, 1).last_ref_base, path_length)

\* C10 as the code has it, for a variant whose alleles are all spelled in A, C, G, T:
\* phase 0 is one fragment, the reference visits of [0, L).
\* When the reference or the alt path of the site is in the graph, the fragments of
\* phase 1 in emission order make up the reference visits of [0, first_ref_base), the
\* alt's visits and the reference visits of [last_ref_base, L), cut wherever two
\* consecutive visits are not joined by an edge; when neither path is in the graph,
\* phase 1 is one fragment with the reference visits of [0, L).  A variant with any
\* other letter in an allele is not processed, and the run emits nothing.
C10_SingleVariantWalks ==
    /\ (SingleVariant /\ ~isDNA(variant_file[1])) => all_phase_threads = <<>>
    /\ (SingleVariant /\ isDNA(variant_file[1])) =>
        /\ Cardinality(FragmentsOf(TheSample, 0)) = 1
        /\ EmittedFrom(1, 0) = ReferenceVisits(1, 0, path_length)
        /\ IF BoundsOf(1, 1).found
           THEN LET walk == ReferenceVisits(1, 0, BoundsOf(1, 1).first_ref_base)
                            \o AltVisits(1, 1)
                            \o ReferenceVisits(1, BoundsOf(1, 1).last_ref_base, path_length)
                IN /\ EmittedFrom(1, 1) = walk
                   /\ Cardinality(FragmentsOf(TheSample, 1)) =
                          1 + Cardinality(MissingSteps(walk))
           ELSE /\ Cardinality(FragmentsOf(TheSample, 1)) = 1
                /\ EmittedFrom(1, 1) = ReferenceVisits(1, 0, path_length)

\* C10 witness: the run of the substitution site is done in the full graph, with two
\* fragments out, the second one leaving the reference for the alt and coming back.
C10_Witness ==
    /\ SingleVariant
    /\ variant_file[1].name = "s1"
    /\ edges = FullEdges
    /\ Len(all_phase_threads) = 2
    /\ EmittedFrom(1, 1) = <<1, 6, 3, 253, 5>>
    /\ EmittedFrom(1, 0) = <<1, 2, 3, 253, 5>>

(***************************************************************************)
(* The batches, the options and the sinks.                                  *)
(***************************************************************************)
\* the fragments handed over so far, whichever sink takes them
FragmentsInSinks ==
    Len(gbwt_builder) + Cardinality({k \in 1 .. Len(binary_file) : binary_file[k] = ENDMARKER})
    + Len(all_phase_threads) + Len(xg_threads)
ThisBatch == batches[Len(batches)]

\* C11: when the records of the contig are used up for a batch and none of them was
\* handled as a variant, then up to the next batch no fragment and no thread name
\* is emitted for any sample of the batch, and no phase buffer is extended: every
\* buffer is empty and every cursor is at the start of the contig.
C11_NothingWithoutVariants ==
    (pc \in {"finish", "finish_sample", "next_batch"} /\ variants_processed = 0) =>
        /\ Len(thread_names) = ThisBatch.emitted
        /\ FragmentsInSinks = ThisBatch.emitted
        /\ \A k \in 1 .. Len(thread_names) :
              ~(batch_start <= thread_names[k][2] /\ thread_names[k][2] < batch_limit)
        /\ \A i \in PhasesOfBatch :
              active_phase_threads[i] = <<>> /\ nonvariant_starts[i] = 0

\* C11 witness: a batch went through a contig whose only record is not DNA and is
\* about to give way to the next batch.
C11_Witness ==
    /\ pc = "next_batch"
    /\ variants_processed = 0
    /\ next_record = 2
    /\ batch_limit > batch_start

NothingStarted ==
    /\ active_phase_threads = <<>> /\ saved_phase_paths = <<>> /\ nonvariant_starts = <<>>
    /\ active_phases = <<>> /\ diploid_region = <<>>
    /\ batches = <<>>
    /\ at_variant = <<>>
    /\ appended = <<>>
    /\ next_record = 1 /\ variants_processed = 0
    /\ thread_names = <<>>
    /\ FragmentsInSinks = 0
    /\ xg_thread_names = <<>> /\ haplotype_count = 0

\* C12: a batch size of zero is rejected before any contig, batch or variant is
\* processed: the run is still at its options or has ended in the error outcome, no
\* phase state was created, no batch was begun, no record was read and nothing was
\* handed to any sink.
C12_ZeroBatchSizeRejected ==
    samples_in_batch < 1 => (pc \in {"options", "error"} /\ NothingStarted)

\* C12 witness: the run with batch size zero and no sink option has ended in error.
C12_Witness ==
    /\ samples_in_batch = 0
    /\ pc = "error"
    /\ ~gbwt_name /\ ~binary_haplotype_output
    /\ Len(variant_file) = 2

(***************************************************************************)
(* One phase at one record.                                                 *)
(***************************************************************************)
\* the phase about to be handled calls a non-reference allele
CallsAlt ==
    /\ pc = "phase"
    /\ phase_offset < active_phases[Here]
    /\ alt_index[phase_offset + 1] > 0
NameHere == variant_file[next_record].name
AltHere == alt_index[phase_offset + 1]
NoPathsHere == ~HasPath(<<NameHere, 0>>) /\ ~HasPath(<<NameHere, AltHere>>)
\* the step handles the phase and leaves its buffers, counters, cursors and the
\* sinks as they are
PhasePassedOver ==
    /\ UNCHANGED <<active_phase_threads, saved_phase_paths, nonvariant_starts, output>>
    /\ pc' = "phase"
    /\ phase_offset' = phase_offset + 1

\* C13: when a phase calls a non-reference allele at a variant whose reference-allele
\* path and called alt path are both absent or empty, the step leaves every buffer,
\* cursor and fragment counter unchanged and emits nothing, and goes on with the next
\* phase; and when the run of one sample is done, each phase has emitted the walk
\* made of the calls at the other records, the record without paths left out.
C13_SiteWithoutPathsSkipped ==
    /\ [][(CallsAlt /\ NoPathsHere) => PhasePassedOver]_vars
    /\ [](( /\ pc = "done" /\ OneSample /\ NoOverlappingSites
            /\ ~gbwt_name /\ ~binary_haplotype_output
            /\ \E k \in 1 .. Len(variant_file) : variant_file[k].name = "x1"
            /\ \A k \in 1 .. Len(variant_file) :
                  PhasedDiploid(variant_file[k].genotypes[TheSample]))
          => \A slot \in {0, 1} : EmittedFrom(1, slot) = ExpectedFrom(1, slot, 0))

\* C13 witness: both phases called the alt at the record without paths and at the next
\* record; the run is done and both phases stayed on the reference at the first record
\* and went through the alt of the later one.
C13_Witness ==
    /\ pc = "done"
    /\ OneSample
    /\ ~gbwt_name
    /\ Len(variant_file) = 2
    /\ variant_file[1].name = "x1"
    /\ variant_file[1].genotypes[TheSample] = Genotype("1", "|", "1")
    /\ variant_file[2].genotypes[TheSample] = Genotype("1", "|", "1")
    /\ EmittedFrom(1, 0) = <<1, 2, 3, 7, 5>>
    /\ EmittedFrom(1, 1) = <<1, 2, 3, 7, 5>>

\* the called alt starts on the reference before the cursor of the phase
SiteHere == SiteBounds(node_length, NameHere, AltHere)
OverlapsHere ==
    /\ SiteHere.found
    /\ SiteHere.first_ref_base < nonvariant_starts[Slot(phase_offset)]
\* what the phase step does with an allele, the node length buffer left out
AlleleEffect(alt) ==
    LET m == HandleAllele(Captured, NameHere, sample_number, phase_offset, alt)
    IN <<m.threads, m.saved, m.starts, m.out, m.names, m.gbwt, m.binary>>

\* C14: with overlaps discarded, a phase step that calls an alt whose first reference
\* base lies before the cursor of the phase leaves every buffer, cursor and fragment
\* counter unchanged and emits nothing, and goes on with the next phase; it does to
\* them what the step would do had the phase called the reference allele.
C14_OverlappingAltSkipped ==
    /\ [][(CallsAlt /\ discard_overlaps /\ OverlapsHere) => PhasePassedOver]_vars
    /\ []((CallsAlt /\ discard_overlaps /\ OverlapsHere) =>
             AlleleEffect(AltHere) = AlleleEffect(0))

\* C14 witness: with overlaps discarded, the phase handled last called an alt of a
\* site with paths, and its cursor is beyond the end of that site: the alt of an
\* earlier record had taken the span, and the call was passed over.
C14_Witness ==
    /\ pc = "phase"
    /\ discard_overlaps
    /\ phase_offset >= 1
    /\ alt_index[phase_offset] > 0
    /\ LET site == SiteBounds(node_length, NameHere, alt_index[phase_offset])
       IN /\ site.found
          /\ site.last_ref_base < nonvariant_starts[Slot(phase_offset - 1)]
    /\ active_phase_threads[Slot(phase_offset - 1)] # <<>>

\* the samples of the range X..Y as typed, both ends included
InRange(s) == range_first <= s /\ s <= range_last /\ s < NumSamples
SamplesOf(batch) == {s \in Samples : batch.batch_start <= s /\ s < batch.batch_limit}

\* C15: for a batch size of at least 1, the batches of the contig are consecutive from
\* the first sample of the range, hold at least one and at most batch-size samples
\* each, no fragment is named after a sample outside the range, and when the contig
\* is done every sample of the range is in exactly one batch.
C15_BatchesPartitionRange ==
    /\ \A k \in 1 .. Len(batches) :
          /\ batches[k].batch_start < batches[k].batch_limit
          /\ batches[k].batch_limit - batches[k].batch_start <= samples_in_batch
          /\ batches[k].batch_start = (IF k = 1 THEN range_first ELSE batches[k - 1].batch_limit)
          /\ \A s \in SamplesOf(batches[k]) : InRange(s)
    /\ \A k \in 1 .. Len(thread_names) : InRange(thread_names[k][2])
    /\ pc = "done" =>
          \A s \in Samples :
              InRange(s) => Cardinality({k \in 1 .. Len(batches) : s \in SamplesOf(batches[k])}) = 1

EndMarkers == {k \in 1 .. Len(binary_file) : binary_file[k] = ENDMARKER}
OnlyTheChosenSink ==
    IF gbwt_name
    THEN binary_file = <<>> /\ all_phase_threads = <<>> /\ xg_threads = <<>>
    ELSE IF binary_haplotype_output
    THEN gbwt_builder = <<>> /\ all_phase_threads = <<>> /\ xg_threads = <<>>
    ELSE gbwt_builder = <<>> /\ binary_file = <<>>

\* C16: at every point of a run only the sink the options choose has been given
\* anything (the GBWT builder if a GBWT name is given, else the binary file if a
\* binary output name is given, else the list of threads, which the flush hands to
\* the xg index); the sinks together hold as many fragments as there are thread
\* names; and a run asked for both the GBWT and the binary output ends in error with
\* nothing started.
C16_OneSinkPerRun ==
    /\ OnlyTheChosenSink
    /\ FragmentsInSinks = Len(thread_names)
    /\ (gbwt_name /\ binary_haplotype_output) =>
          (pc \in {"options", "error"} /\ NothingStarted)

\* C16 witness: a run with the binary output has written several threads, each ended
\* by the end marker, and is flushed.
C16_Witness ==
    /\ pc = "saved"
    /\ binary_haplotype_output /\ ~gbwt_name
    /\ Cardinality(EndMarkers) >= 4
    /\ Cardinality(EndMarkers) = Len(thread_names)

\* C17 as claimed: when the run has ended, the haplotype count of the index is twice
\* the number of samples, for every sink.
C17_HaplotypeCountAlways ==
    pc = "saved" => haplotype_count = 2 * NumSamples

\* C17 as the code has it: when the run has ended with the GBWT builder or the list of
\* threads as its sink, the haplotype count of the index is twice the number of
\* samples of the variant file, whatever the sample range and the ploidy of the
\* calls; with the binary file as its sink the run does not set the count.
C17_HaplotypeCountUnlessBinary ==
    pc = "saved" =>
        IF binary_haplotype_output /\ ~gbwt_name
        THEN haplotype_count = 0 /\ xg_thread_names = <<>>
        ELSE haplotype_count = 2 * NumSamples /\ xg_thread_names = thread_names

\* C17 witness: a run over a part of the samples, some of them haploid at a record,
\* has ended with the GBWT builder as its sink and fewer fragments than haplotypes.
C17_Witness ==
    /\ pc = "saved"
    /\ gbwt_name
    /\ range_first = 1
    /\ \E s \in Samples : InRange(s) /\ variant_file[1].genotypes[s] = <<"1">>
    /\ gbwt_builder # <<>>
    /\ Len(gbwt_builder) < haplotype_count
    /\ haplotype_count = 2 * NumSamples

RECURSIVE Visits(_)
Visits(threads) == IF threads = <<>> THEN 0 ELSE Len(Head(threads)) + Visits(Tail(threads))
\* the node visits held by the buffers and by the sinks
VisitsBuffered ==
    IF Allocated
    THEN Visits([i \in 1 .. phases_in_batch |-> active_phase_threads[i - 1]])
    ELSE 0
VisitsInSinks ==
    Visits(gbwt_builder) + (Len(binary_file) - Cardinality(EndMarkers))
    + Visits(all_phase_threads) + Visits(xg_threads)

\* C18: when the processing of the contig has ended, every sample of the batch state
\* has no active phase and every phase buffer is empty; and no step of the run loses a
\* node visit: the buffers and the sinks together never hold fewer visits than before,
\* so every visit appended to a buffer is in a fragment handed to the sink.
C18_AllFlushedAtContigEnd ==
    /\ [](pc \in {"done", "saved"} =>
            /\ \A i \in PhasesOfBatch : active_phase_threads[i] = <<>>
            /\ \A x \in 0 .. samples_in_batch - 1 : active_phases[x] = 0)
    /\ [][(VisitsBuffered + VisitsInSinks)' >= VisitsBuffered + VisitsInSinks]_vars

\* C18 witness: the contig is done after two batches, a sample of the first batch was
\* haploid at the last record, and fragments are in the sink.
C18_Witness ==
    /\ pc = "done"
    /\ Len(batches) = 2
    /\ \E s \in SamplesOf(batches[1]) :
          variant_file[Len(variant_file)].genotypes[s] = <<"1">>
    /\ VisitsInSinks > 0
    /\ VisitsBuffered = 0

(***************************************************************************)
(* The contract of append_node, on every state the run goes through.        *)
(***************************************************************************)
\* the threads written to the binary file, cut at the end markers
RECURSIVE ThreadsOfFile(_, _)
ThreadsOfFile(file, thread) ==
    IF file = <<>> THEN <<>>
    ELSE IF Head(file) = ENDMARKER THEN <<thread>> \o ThreadsOfFile(Tail(file), <<>>)
    ELSE ThreadsOfFile(Tail(file), Append(thread, Head(file)))
\* the fragments the sink of the run was handed, as sequences of gbwt nodes
Delivered(m) ==
    IF gbwt_name THEN m.gbwt
    ELSE IF binary_haplotype_output THEN ThreadsOfFile(m.binary, <<>>)
    ELSE [k \in 1 .. Len(m.out) |->
             [j \in 1 .. Len(m.out[k]) |-> Encode(m.out[k][j].node_id, m.out[k][j].is_reverse)]]
SomeNodes == {Encode(id, FALSE) : id \in DOMAIN IndexNodeLength} \cup {Encode(2, TRUE)}
AppendContract(m, i, node) ==
    LET after == append_node(m, first_phase + i, node)
        buffer == m.threads[i]
    IN /\ IF buffer # <<>> /\ ~has_edge(edges, buffer[Len(buffer)], node)
          THEN /\ Delivered(after) = Append(Delivered(m), buffer)
               /\ Len(after.names) = Len(m.names) + 1
               /\ after.saved[i] = m.saved[i] + 1
               /\ after.threads[i] = <<node>>
          ELSE /\ Delivered(after) = Delivered(m)
               /\ after.names = m.names
               /\ after.saved = m.saved
               /\ after.threads[i] = Append(buffer, node)
       /\ after.threads[i][Len(after.threads[i])] = node
       /\ \A j \in PhasesOfBatch : j # i => after.threads[j] = m.threads[j]
       /\ after.starts = m.starts

\* C19: append_node on a phase whose buffer is non-empty and whose last visit has no
\* edge to the node hands exactly the buffer's content to the sink as one fragment
\* and leaves the buffer as the single visit of the node; on an empty buffer, or when
\* the edge is in the graph, it hands over nothing and appends the node at the end of
\* the unchanged buffer.  Either way the buffer's last visit is the node, and the
\* other buffers and the cursors are as before.
C19_AppendContract ==
    (Allocated /\ pc # "saved") =>
        \A i \in PhasesOfBatch, node \in SomeNodes : AppendContract(Captured, i, node)

\* C19 witness: with the GBWT builder as the sink and an edge missing, a buffer begins
\* with the reference node that has no edge from the alt before it, and the fragment
\* handed over last ends with that alt.
C19_Witness ==
    /\ Allocated
    /\ gbwt_name
    /\ gbwt_builder # <<>>
    /\ LET last == gbwt_builder[Len(gbwt_builder)]
       IN /\ last[Len(last)] = Encode(6, FALSE)
          /\ \E i \in PhasesOfBatch :
                /\ active_phase_threads[i] # <<>>
                /\ active_phase_threads[i][1] = Encode(3, FALSE)

(***************************************************************************)
(* The cursors of a batch from one step to the next.                        *)
(***************************************************************************)
\* a step of the batch under way: the allocation of the next batch is not one
WithinBatch == pc \in {"batch", "read", "sample", "phase", "finish", "finish_sample"}
CursorAdvances(i) == nonvariant_starts'[i] >= nonvariant_starts[i]
\* the phase about to be handled attaches an alt of a site that ends before its cursor
EndsBeforeCursor(i) ==
    /\ CallsAlt
    /\ i = Slot(phase_offset)
    /\ SiteHere.found
    /\ SiteHere.last_ref_base < nonvariant_starts[i]

\* C20 as stated: within a batch no step lowers the cursor of a phase, whether or not
\* overlaps are discarded (a forced close extends the phase and puts the cursor back
\* in one step, so the cursor it leaves is never below the one it found).
C20_CursorNeverDecreases ==
    [][WithinBatch => \A i \in PhasesOfBatch : CursorAdvances(i)]_vars

\* C20 amended: with overlaps discarded no step of a batch lowers the cursor of a
\* phase; with overlaps kept the only step that lowers one is the phase step that
\* attaches an alt of a site ending before the cursor, which sets the cursor to the
\* end of that site.  In every state the extension with reference, to any position,
\* leaves the cursor of the phase at or beyond where it was.
C20_CursorDecreasesOnlyAtOverlap ==
    /\ [][WithinBatch =>
             \A i \in PhasesOfBatch :
                \/ CursorAdvances(i)
                \/ /\ ~discard_overlaps
                   /\ EndsBeforeCursor(i)
                   /\ nonvariant_starts'[i] = SiteHere.last_ref_base]_vars
    /\ [](WithinBatch =>
             \A i \in PhasesOfBatch, end \in 0 .. path_length :
                append_reference_mappings_until(Captured, first_phase + i, end).starts[i]
                    >= nonvariant_starts[i])

\* C20 witness: with overlaps kept, the phase handled last attached the alt of a site
\* that ends before the cursor the phase had when the genotype was read, and its
\* cursor is now the end of that site.
C20_Witness ==
    /\ pc = "phase"
    /\ ~discard_overlaps
    /\ phase_offset >= 1
    /\ alt_index[phase_offset] > 0
    /\ LET site == SiteBounds(node_length, NameHere, alt_index[phase_offset])
           i == Slot(phase_offset - 1)
       IN /\ site.found
          /\ nonvariant_starts[i] = site.last_ref_base
          /\ nonvariant_starts[i] < entry.starts[i]
          /\ active_phase_threads[i] # <<>>

(***************************************************************************)
(* The forced close of a sample's phases at a variant.                      *)
(***************************************************************************)
\* the genotype of the sample has just been read and its paths broken or kept
JustParsed == pc = "phase" /\ phase_offset = 0
\* the condition of the close, from the genotype read and the flags before it
CloseDue ==
    LET parsed == ParseGenotype(GenotypeHere, entry.diploid)
    IN \/ parsed.is_diploid # entry.diploid
       \/ (parsed.new_active_phases = 0 /\ entry.active > 0)
\* the node visits of the fragments emitted for slot k of the sample since its
\* genotype was read, in emission order
RECURSIVE EmittedSince(_, _)
EmittedSince(j, k) ==
    IF j > Len(all_phase_threads) THEN <<>>
    ELSE (IF j \in EmittedHere(k)
          THEN [i \in 1 .. Len(all_phase_threads[j]) |-> all_phase_threads[j][i].node_id]
          ELSE <<>>) \o EmittedSince(j + 1, k)
NodeIds(thread) == [i \in 1 .. Len(thread) |-> NodeId(thread[i])]

\* C21: when the genotype of a sample has been read at a variant, its phases were
\* closed exactly when its ploidy classification differs from the one before or it
\* has no active phase now and had one before.  Closed: every buffer of the sample
\* is empty before any allele is attached, and each phase that was active has
\* emitted its buffer followed by the reference visits from its cursor up to the
\* variant's start.  Not closed (an inactive sample becoming active with the same
\* ploidy among the cases): buffers, cursors and counters are as before and nothing
\* was emitted.
C21_ForcedCloseExactlyWhenDue ==
    JustParsed =>
        IF CloseDue
        THEN \A k \in {0, 1} :
                /\ active_phase_threads[Slot(k)] = <<>>
                /\ EmittedSince(entry.emitted + 1, k) =
                       IF k < entry.active
                       THEN NodeIds(entry.threads[Slot(k)])
                            \o ReferenceVisits(1, entry.starts[Slot(k)], Position)
                       ELSE <<>>
        ELSE /\ Len(all_phase_threads) = entry.emitted
             /\ active_phase_threads = entry.threads
             /\ nonvariant_starts = entry.starts
             /\ saved_phase_paths = entry.saved

\* C21 witness: a diploid sample with visits in both buffers read an unphased
\* genotype, which leaves it without active phase and with the same ploidy; both
\* phases were extended with the reference up to the variant and closed.
C21_Witness ==
    /\ JustParsed
    /\ CloseDue
    /\ ~PloidyChanged
    /\ entry.active = 2
    /\ \A k \in {0, 1} :
          /\ entry.threads[Slot(k)] # <<>>
          /\ Len(EmittedSince(entry.emitted + 1, k)) > Len(entry.threads[Slot(k)])

(***************************************************************************)
(* The cursor after a forced close.                                         *)
(***************************************************************************)
\* the reference visits the close of slot k added before it closed the buffer
ClosingSpan(k) == ReferenceVisits(1, entry.starts[Slot(k)], Position)
IsPrefix(short, long) ==
    Len(short) <= Len(long) /\ SubSeq(long, 1, Len(short)) = short
IsSuffix(short, long) ==
    /\ Len(short) <= Len(long)
    /\ SubSeq(long, Len(long) - Len(short) + 1, Len(long)) = short

AcceptsAlt ==
    /\ CallsAlt
    /\ SiteHere.found
    /\ \/ nonvariant_starts[Slot(phase_offset)] <= SiteHere.first_ref_base
       \/ ~discard_overlaps
\* the visits of a sequence of emitted threads, one after the other, as gbwt nodes
RECURSIVE Joined(_)
Joined(threads) ==
    IF threads = <<>> THEN <<>>
    ELSE [i \in 1 .. Len(Head(threads)) |-> mapping_to_gbwt(Head(threads)[i])]
         \o Joined(Tail(threads))
Forward(ids) == [i \in 1 .. Len(ids) |-> Encode(ids[i], FALSE)]
PathHere(allele) ==
    IF <<NameHere, allele>> \in DOMAIN alt_paths THEN alt_paths[<<NameHere, allele>>]
    ELSE <<>>
\* the lengths, in the index, of the nodes of a path
RECURSIVE PathLength(_)
PathLength(mappings) ==
    IF mappings = <<>> THEN 0
    ELSE IndexNodeLength[Head(mappings).node_id] + PathLength(Tail(mappings))

\* C23: the phase step of an accepted alt call gives the phase, after what it held,
\* the reference visits from its cursor up to first_ref_base and then every visit of
\* the alt path in path order: the threads the step emitted followed by the buffer
\* it leaves are the buffer it found followed by those visits.  The cursor it leaves
\* is first_ref_base plus the lengths of the nodes of the reference-allele path,
\* and first_ref_base itself when the site has no reference-allele path.
C23_AcceptedAltAttached ==
    [][AcceptsAlt =>
          LET i == Slot(phase_offset)
          IN /\ Joined(SubSeq(all_phase_threads', Len(all_phase_threads) + 1,
                              Len(all_phase_threads')))
                    \o active_phase_threads'[i]
                 = active_phase_threads[i]
                    \o Forward(ReferenceVisits(1, nonvariant_starts[i],
                                               SiteHere.first_ref_base))
                    \o Joined(<<PathHere(AltHere)>>)
             /\ nonvariant_starts'[i] = SiteHere.first_ref_base + PathLength(PathHere(0))]_vars

\* C23 witness: a phase that held visits has taken the two-node alt after the
\* reference visit before it, and its cursor is past the node the alt replaces.
C23_Witness ==
    /\ pc = "phase"
    /\ phase_offset >= 1
    /\ alt_index[phase_offset] = 1
    /\ NameHere = "m1"
    /\ LET buffer == active_phase_threads[Slot(phase_offset - 1)]
       IN /\ Len(buffer) >= 4
          /\ SubSeq(buffer, Len(buffer) - 2, Len(buffer)) = Forward(<<2, 9, 10>>)
    /\ nonvariant_starts[Slot(phase_offset - 1)] = 6

(***************************************************************************)
(* Where a site starts on the reference.                                    *)
(***************************************************************************)
MaxOf(S) == CHOOSE x \in S : \A y \in S : y <= x
\* the nodes at the other end of the edges on the side by which a visit is entered
IncomingNeighbours(visit) ==
    LET side == IF visit.is_reverse THEN edges_on_end(edges, visit.node_id)
                ELSE edges_on_start(edges, visit.node_id)
    IN {IF e.from = visit.node_id THEN e.to ELSE e.from : e \in side}
\* past the end of the latest reference node, other than the node itself, entering
\* the first visit of the called alt; 0 when no reference node enters it
LatestNeighbourEnd ==
    LET first_alt == PathHere(AltHere)[1]
        on_reference == (IncomingNeighbours(first_alt) \cap DOMAIN by_id) \ {first_alt.node_id}
    IN MaxOf({0} \cup {by_id[n].first + IndexNodeLength[n] : n \in on_reference})
AltWithoutReference ==
    CallsAlt /\ ~HasPath(<<NameHere, 0>>) /\ HasPath(<<NameHere, AltHere>>)

\* C24: when a phase calls an alt with a non-empty path at a variant whose
\* reference-allele path is absent or empty, first_ref_base is the maximum, over the
\* reference nodes other than the alt's first node that are joined to the side by
\* which the alt's first visit is entered, of the node's reference start plus its
\* length, and 0 when there is none; the cursor of the phase is there after the step.
C24_FirstRefBaseFromNeighbours ==
    /\ [](AltWithoutReference =>
             SiteHere.found /\ SiteHere.first_ref_base = LatestNeighbourEnd)
    /\ [][AltWithoutReference =>
             nonvariant_starts'[Slot(phase_offset)] = LatestNeighbourEnd]_vars

\* C24 witness: the inserted node is entered from two reference nodes, from a node
\* off the reference and from itself; the phase took the alt and its cursor is past
\* the later of the two reference nodes.
C24_Witness ==
    /\ pc = "phase"
    /\ phase_offset >= 1
    /\ alt_index[phase_offset] = 1
    /\ NameHere = "i1"
    /\ {Edge(3, 8), Edge(253, 8), Edge(6, 8), Edge(8, 8)} \subseteq edges
    /\ <<Encode(8, TRUE), Encode(5, FALSE)>> \notin edges
    /\ ~HasPath(<<"i1", 0>>)
    /\ HasPath(<<"i1", 1>>)
    /\ ~alt_paths[<<"i1", 1>>][1].is_reverse
    /\ nonvariant_starts[Slot(phase_offset - 1)] = 7

\* where a node of the reference path starts on the reference
StartOnReference(id) ==
    LET i == CHOOSE j \in 1 .. Len(by_start) : by_start[j].side.node = id
    IN by_start[i].start
AltWithReference == CallsAlt /\ HasPath(<<NameHere, 0>>)

\* C25: when a phase calls an alt at a variant whose reference-allele path has a
\* node, first_ref_base is where the first node of that path starts on the
\* reference, whether the called alt has a path or not and whatever enters the alt's
\* first node; the cursor of the phase is then set past the nodes of that path.
C25_FirstRefBaseFromReferenceAllele ==
    /\ [](AltWithReference =>
             /\ SiteHere.found
             /\ SiteHere.first_ref_base = StartOnReference(PathHere(0)[1].node_id))
    /\ [][(AltWithReference /\ AcceptsAlt) =>
             nonvariant_starts'[Slot(phase_offset)] =
                 StartOnReference(PathHere(0)[1].node_id) + PathLength(PathHere(0))]_vars

\* C25 witness: node 253 is the reference allele of the site and the alt's node is
\* entered from node 3 and, by its start side, from node 5, whose end is the end of
\* the contig; the phase took the alt and its cursor is past node 253.
C25_Witness ==
    /\ pc = "phase"
    /\ phase_offset >= 1
    /\ alt_index[phase_offset] = 1
    /\ NameHere = "i1"
    /\ HasPath(<<"i1", 0>>)
    /\ HasPath(<<"i1", 1>>)
    /\ {Edge(3, 8), <<Encode(8, TRUE), Encode(5, FALSE)>>} \subseteq edges
    /\ nonvariant_starts[Slot(phase_offset - 1)] = 7
    /\ active_phase_threads[Slot(phase_offset - 1)] # <<>>

(***************************************************************************)
(* The classification of a genotype string.                                 *)
(***************************************************************************)
Has(str, ch) == \E k \in 1 .. Len(str) : str[k] = ch
\* the place of the first '|' of a string that has one
FirstBar(str) == CHOOSE k \in 1 .. Len(str) : str[k] = "|" /\ ~Has(SubSeq(str, 1, k - 1), "|")
\* "none", "haploid" or "diploid"
ClassOf(str) ==
    IF str = <<>> THEN "none"
    ELSE IF ~Has(str, "|") THEN (IF Has(str, "/") THEN "none" ELSE "haploid")
    ELSE IF FirstBar(str) > 1 /\ FirstBar(str) < Len(str) THEN "diploid"
    ELSE "none"
\* the allele tokens of a classified string, and the allele a token calls
TokensOf(str) ==
    IF ClassOf(str) = "haploid" THEN <<str>>
    ELSE IF ClassOf(str) = "diploid"
    THEN <<SubSeq(str, 1, FirstBar(str) - 1), SubSeq(str, FirstBar(str) + 1, Len(str))>>
    ELSE <<>>
AlleleOf(token) == IF token = <<".">> THEN -1 ELSE IF token = <<"0">> THEN 0 ELSE 1

\* C26: once the genotype of a sample is read, an empty genotype, one with '/' and
\* no '|', and one whose first '|' has an empty side leave the sample with no active
\* phase and with the ploidy flag it had; a genotype with neither separator leaves
\* it haploid with one active phase; a genotype a|b with both sides non-empty leaves
\* it diploid with two.  The allele of a slot is missing exactly when its own token
\* is '.', and is the token's number otherwise.
C26_GenotypeClassified ==
    JustParsed =>
        LET class == ClassOf(GenotypeHere)
            tokens == TokensOf(GenotypeHere)
        IN /\ active_phases[Here] = Len(tokens)
           /\ diploid_region[Here] = (IF class = "none" THEN entry.diploid
                                      ELSE class = "diploid")
           /\ \A k \in 1 .. 2 :
                 alt_index[k] = IF k <= Len(tokens) THEN AlleleOf(tokens[k]) ELSE -1

\* C26 witness: a sample that a haploid call had left haploid and active has read a
\* genotype whose '|' has nothing after it: it has no active phase and is still
\* haploid.
C26_Witness ==
    /\ JustParsed
    /\ GenotypeHere = <<"1", "|">>
    /\ ~entry.diploid
    /\ entry.active = 1
    /\ active_phases[Here] = 0
    /\ ~diploid_region[Here]

(***************************************************************************)
(* A missing allele in an active phase.                                     *)
(***************************************************************************)
\* the phase about to be handled has a missing allele; the phase handled last had one
MissingNext == pc = "phase" /\ phase_offset < active_phases[Here] /\ alt_index[phase_offset + 1] = -1
MissingHandled == pc = "phase" /\ phase_offset >= 1 /\ alt_index[phase_offset] = -1
SinceGenotype(k) ==
    /\ active_phase_threads[Slot(k)] = entry.threads[Slot(k)]
    /\ nonvariant_starts[Slot(k)] = entry.starts[Slot(k)]
    /\ saved_phase_paths[Slot(k)] = entry.saved[Slot(k)]
    /\ EmittedHere(k) = {}

\* C27 as stated: once an active phase with a missing allele is handled at a variant,
\* its buffer, cursor and fragment counter are those it had before the variant and
\* it has emitted nothing there.
C27_MissingTokenUntouched ==
    MissingHandled => SinceGenotype(phase_offset - 1)

\* C27 amended: the phase step of a missing allele changes no buffer, cursor or
\* counter and emits nothing, which is what the step of a reference call does; when
\* the genotype did not force the close of the sample's phases, the phase is as it
\* was before the variant and has emitted nothing there; and the run of the same
\* records with allele 0 in the place of every missing allele hands the sink the
\* same threads under the same names, in the same order.
C27_MissingLikeReference ==
    /\ [][MissingNext => PhasePassedOver]_vars
    /\ [](MissingNext => AlleleEffect(-1) = AlleleEffect(0))
    /\ []((MissingHandled /\ ~Broke) => SinceGenotype(phase_offset - 1))
    /\ []((pc = "done" /\ Len(runs) = 1) =>
             /\ thread_names = runs[1].names
             /\ all_phase_threads = runs[1].threads)

\* C27 witness: the second run is done; in the first one the second slot of a sample
\* had a missing allele at the first site and at the last, and the run handed over
\* a fragment that takes the alt of both sites and one that takes neither.
C27_Witness ==
    /\ pc = "done"
    /\ Len(runs) = 1
    /\ variant_file[1].genotypes[0] = Genotype("1", "|", "0")
    /\ variant_file[3].genotypes[0] = Genotype("1", "|", "0")
    /\ edges = FullEdges
    /\ all_phase_threads = runs[1].threads
    /\ \E k \in 1 .. Len(all_phase_threads) :
          NodeIds(Joined(<<all_phase_threads[k]>>)) = <<1, 6, 3, 7, 5>>
    /\ \E k \in 1 .. Len(all_phase_threads) :
          NodeIds(Joined(<<all_phase_threads[k]>>)) = <<1, 2, 3, 253, 5>>

(***************************************************************************)
(* The close of the still-active phases at the end of a batch.              *)
(***************************************************************************)
\* the end of the batch is about to close the phases of a sample
ClosesSample == pc = "finish_sample" /\ sample_number < batch_limit
\* the visits of the threads from the j-th on that are named for a slot of a sample,
\* one after the other, as gbwt nodes
RECURSIVE JoinedFor(_, _, _, _, _)
JoinedFor(threads, names, sample, slot, j) ==
    IF j > Len(threads) THEN <<>>
    ELSE (IF names[j][2] = sample_names[sample] /\ names[j][4] = slot
          THEN Joined(<<threads[j]>>) ELSE <<>>)
         \o JoinedFor(threads, names, sample, slot, j + 1)
LastReferenceVisit == node_side_to_gbwt(by_start[Len(by_start)].side)
EndsOnReference(visits) == visits # <<>> => visits[Len(visits)] = LastReferenceVisit

\* C28 as stated: the end of a batch that processed a variant extends every
\* still-active phase to the end of the contig and closes it, so what the phase
\* emits there ends with the last node visit of the reference path.
C28_LastFragmentEndsOnReference ==
    [][ClosesSample =>
          \A k \in 0 .. active_phases[Here] - 1 :
              /\ active_phase_threads'[Slot(k)] = <<>>
              /\ EndsOnReference(JoinedFor(all_phase_threads', thread_names',
                                           sample_number, k,
                                           Len(all_phase_threads) + 1))]_vars

\* C28 amended: the end of a batch that processed a variant closes every still-active
\* phase after the reference visits from its cursor to the end of the contig: what
\* the phase emits there is its buffer followed by those visits, and its buffer is
\* empty afterwards.  When the cursor is before the end of the contig, what the
\* phase emits ends with the last node visit of the reference path; when the cursor
\* is at the end, no visit is added and it ends with the last visit of the buffer.
C28_ExtendedToContigEnd ==
    [][ClosesSample =>
          /\ variants_processed > 0
          /\ \A k \in 0 .. active_phases[Here] - 1 :
                LET emitted == JoinedFor(all_phase_threads', thread_names',
                                         sample_number, k, Len(all_phase_threads) + 1)
                    cursor == nonvariant_starts[Slot(k)]
                IN /\ active_phase_threads'[Slot(k)] = <<>>
                   /\ emitted = active_phase_threads[Slot(k)]
                                  \o Forward(ReferenceVisits(1, cursor, path_length))
                   /\ cursor < path_length =>
                          emitted # <<>> /\ EndsOnReference(emitted)
                   /\ cursor >= path_length =>
                          emitted = active_phase_threads[Slot(k)]]_vars

\* C28 witness: the end of the batch has closed the two phases of a sample; the one
\* closed last had taken the alt of the site that replaces the last node of the
\* reference path and ends with it, the other ends with the last reference node.
C28_Witness ==
    /\ pc = "finish_sample"
    /\ sample_number > batch_start
    /\ Len(all_phase_threads) >= 2
    /\ LET last == Joined(<<all_phase_threads[Len(all_phase_threads)]>>)
           before == Joined(<<all_phase_threads[Len(all_phase_threads) - 1]>>)
       IN /\ last[Len(last)] = Encode(11, FALSE)
          /\ before[Len(before)] = LastReferenceVisit
          /\ Len(last) > 1

(***************************************************************************)
(* The state a batch starts from.                                           *)
(***************************************************************************)
BatchStarts == pc = "batch" /\ batch_start < sample_range[2]

\* C29: when a batch is about to start, the first of the contig or a later one, there
\* is a buffer, a cursor and a fragment counter for each of the 2 * samples_in_batch
\* phases and a phase count and a ploidy flag for each of the samples_in_batch
\* samples, and they are the initial ones: every buffer empty, every cursor and
\* counter 0, every sample without active phase and diploid.
C29_BatchStartsFresh ==
    BatchStarts =>
        /\ active_phase_threads = [i \in PhasesOfBatch |-> <<>>]
        /\ nonvariant_starts = [i \in PhasesOfBatch |-> 0]
        /\ saved_phase_paths = [i \in PhasesOfBatch |-> 0]
        /\ active_phases = [x \in 0 .. samples_in_batch - 1 |-> 0]
        /\ diploid_region = [x \in 0 .. samples_in_batch - 1 |-> TRUE]
        /\ first_phase = 2 * batch_start

\* C29 witness: the second batch is about to start; a sample of the first batch was
\* haploid at the last record and the first batch handed fragments to the sink.
C29_Witness ==
    /\ BatchStarts
    /\ Len(batches) = 1
    /\ \E s \in SamplesOf(batches[1]) :
          variant_file[Len(variant_file)].genotypes[s] = <<"1">>
    /\ Len(thread_names) >= 2
    /\ \A x \in 0 .. samples_in_batch - 1 : diploid_region[x]

(***************************************************************************)
(* What the handling of one phase or one sample does to the others.         *)
(***************************************************************************)
\* every phase but those of a set, and every sample but the one handled, keeps its
\* state over the step
OthersUntouched(phases) ==
    /\ \A j \in PhasesOfBatch \ phases :
          /\ active_phase_threads'[j] = active_phase_threads[j]
          /\ nonvariant_starts'[j] = nonvariant_starts[j]
          /\ saved_phase_paths'[j] = saved_phase_paths[j]
    /\ \A x \in (0 .. samples_in_batch - 1) \ {Here} :
          /\ active_phases'[x] = active_phases[x]
          /\ diploid_region'[x] = diploid_region[x]
\* the captured state with every phase but one put back to its initial state
Alone(i) ==
    [Captured EXCEPT
        !.threads = [j \in PhasesOfBatch |-> IF j = i THEN @[j] ELSE <<>>],
        !.saved = [j \in PhasesOfBatch |-> IF j = i THEN @[j] ELSE 0],
        !.starts = [j \in PhasesOfBatch |-> IF j = i THEN @[j] ELSE 0]]
\* what an operation that leads to m gave a slot of the sample handled: the names and
\* the threads it emitted for the slot, and the buffer and the counter of the slot
GivenTo(m, k) ==
    LET count == Len(m.names) - Len(thread_names)
        delivered == Delivered(m)
        new == {j \in 1 .. count : m.names[Len(thread_names) + j][4] = k}
    IN [names |-> {m.names[Len(thread_names) + j] : j \in new},
        threads |-> {delivered[Len(delivered) - count + j] : j \in new},
        buffer |-> m.threads[Slot(k)],
        saved |-> m.saved[Slot(k)]]
\* the three operations on the sample handled, from a captured state
BreakHere(m) ==
    LET parsed == ParseGenotype(GenotypeHere, diploid_region[Here])
    IN BreakPaths(m, sample_number, parsed, active_phases[Here], diploid_region[Here],
                  Position)
AlleleHere(m) == HandleAllele(m, NameHere, sample_number, phase_offset, AltHere)
FinishHere(m) ==
    FinishPhases(m, sample_number, 0, IF diploid_region[Here] THEN 2 ELSE 1)

\* C30: the step of one phase's allele changes no buffer, cursor or counter of
\* another phase, and the steps that handle a sample (its genotype, the end of the
\* batch) change no phase and no flag of another sample.  What a step gives a phase
\* (the fragments it emits for it and their names, its buffer, its counter) is what
\* it gives the phase from the state in which every other phase is in its initial
\* state: it depends on the phase's own state only.
C30_PhasesIndependent ==
    /\ [][(pc = "phase" /\ phase_offset < active_phases[Here]) =>
             OthersUntouched({Slot(phase_offset)})]_vars
    /\ [][((pc = "sample" /\ sample_number < batch_limit) \/ ClosesSample) =>
             OthersUntouched({Slot(0), Slot(1)})]_vars
    /\ []((pc = "phase" /\ phase_offset < active_phases[Here]) =>
             GivenTo(AlleleHere(Captured), phase_offset)
                 = GivenTo(AlleleHere(Alone(Slot(phase_offset))), phase_offset))
    /\ [](ClosesSample =>
             \A k \in {0, 1} :
                 GivenTo(FinishHere(Captured), k) = GivenTo(FinishHere(Alone(Slot(k))), k))
    /\ []((pc = "sample" /\ sample_number < batch_limit) =>
             \A k \in {0, 1} :
                 GivenTo(BreakHere(Captured), k) = GivenTo(BreakHere(Alone(Slot(k))), k))

(***************************************************************************)
(* The sink over the whole run.                                             *)
(***************************************************************************)
\* the threads the sink of the run holds, in the order it was handed them, as gbwt
\* nodes; the list of threads goes to the xg index when the run is flushed
SinkThreads ==
    IF gbwt_name THEN gbwt_builder
    ELSE IF binary_haplotype_output THEN ThreadsOfFile(binary_file, <<>>)
    ELSE LET listed == xg_threads \o all_phase_threads
         IN [k \in 1 .. Len(listed) |->
                [j \in 1 .. Len(listed[k]) |-> mapping_to_gbwt(listed[k][j])]]
SinkPairs == [k \in 1 .. Len(SinkThreads) |-> <<thread_names[k], SinkThreads[k]>>]

\* C31: the sink is append-only: every fragment in the sink has its name, and over
\* every step of the run (a split, a close, a change of batch, the end of the run by
\* an exception or by the flush) the sequence of (name, node visits) pairs delivered
\* before the step is a prefix of the sequence delivered after it.
C31_SinkAppendOnly ==
    [][/\ Len(SinkThreads') = Len(thread_names')
       /\ IsPrefix(SinkPairs, SinkPairs')]_vars

\* C31 witness: the run was ended by an exception in its second batch, with the
\* fragments of the first batch, several of them, in the binary file.
C31_Witness ==
    /\ pc = "aborted"
    /\ Len(batches) = 2
    /\ binary_haplotype_output
    /\ batches[2].emitted > 2
    /\ Len(SinkPairs) = batches[2].emitted

(***************************************************************************)
(* The batch loop of the contig.                                            *)
(***************************************************************************)
\* ceil((hi - lo) / B) for the sample range [lo, hi) of the run, 0 when it is empty
BatchesDue ==
    LET lo == sample_range[1]
        hi == sample_range[2]
    IN IF lo >= hi THEN 0 ELSE (hi - lo + samples_in_batch - 1) \div samples_in_batch
LoopEntered == pc \notin {"options", "error"}

\* C32: a run with batch size B >= 1 comes to its end; when the batch loop is left
\* it has begun exactly ceil((hi - lo) / B) batches, none when lo >= hi, and never
\* more than that before; and each batch starts at a later sample than the one before.
C32_BatchLoopTerminates ==
    /\ <>(pc \in {"saved", "error"})
    /\ [](pc \in {"done", "saved"} => Len(batches) = BatchesDue)
    /\ [](LoopEntered => Len(batches) <= BatchesDue)
    /\ [](\A k \in 1 .. Len(batches) - 1 :
             batches[k].batch_start < batches[k + 1].batch_start)

\* C32 witness: the loop is left after two batches, the second shorter than the
\* batch size.
C32_Witness ==
    /\ pc = "done"
    /\ Len(batches) = 2
    /\ samples_in_batch = 2
    /\ batches[2].batch_limit - batches[2].batch_start = 1

(***************************************************************************)
(* The visits of a phase, through splits and closes.                        *)
(***************************************************************************)
\* the fragments in the sink from position j on that carry the name of a phase slot of
\* a sample, one after the other
RECURSIVE EmittedFor(_, _, _)
EmittedFor(sample, slot, j) ==
    IF j > Len(SinkThreads) THEN <<>>
    ELSE (IF thread_names[j][2] = sample_names[sample] /\ thread_names[j][4] = slot
          THEN SinkThreads[j] ELSE <<>>)
         \o EmittedFor(sample, slot, j + 1)

\* C33: at every state of a batch and for every phase of a sample of the batch, the
\* fragments emitted for the phase, in emission order, followed by the content of its
\* buffer, are the node visits the appends were called with for that phase, in the
\* order of the calls; the phases allocated beyond the last sample of a shorter batch
\* were given nothing and hold nothing.
C33_NothingLost ==
    WithinBatch =>
        \A i \in PhasesOfBatch :
            LET sample == batch_start + i \div 2
            IN IF sample < batch_limit
               THEN EmittedFor(sample, i % 2, 1) \o active_phase_threads[i] = appended[i]
               ELSE active_phase_threads[i] = <<>> /\ appended[i] = <<>>

\* C33 witness: a phase has emitted two fragments, by a split and by a close, and
\* holds further visits in its buffer.
C33_Witness ==
    /\ WithinBatch
    /\ \E i \in PhasesOfBatch :
          LET sample == batch_start + i \div 2
          IN /\ sample < batch_limit
             /\ Cardinality(FragmentsOf(sample, i % 2)) >= 2
             /\ active_phase_threads[i] # <<>>
             /\ Len(appended[i]) > Len(active_phase_threads[i])

(***************************************************************************)
(* The cursors when overlapping sites are discarded.                        *)
(***************************************************************************)
\* C34: with overlap-discarding enabled, from the moment a record is taken to the
\* end of its handling the cursor of every phase is at or beyond the value it had
\* when the record was taken; and the phase step of an accepted alt call finds the
\* cursor at or before first_ref_base, which is at or before last_ref_base, and
\* leaves the cursor at last_ref_base.
C34_CursorsAdvanceWhenDiscarding ==
    /\ [](discard_overlaps /\ pc \in {"sample", "phase"} =>
             \A i \in PhasesOfBatch : nonvariant_starts[i] >= at_variant[i])
    /\ [][discard_overlaps /\ AcceptsAlt =>
             LET i == Slot(phase_offset)
             IN /\ at_variant[i] <= nonvariant_starts[i]
                /\ nonvariant_starts[i] <= SiteHere.first_ref_base
                /\ SiteHere.first_ref_base <= SiteHere.last_ref_base
                /\ SiteHere.last_ref_base = nonvariant_starts'[i]]_vars

\* C34 witness: with overlap-discarding enabled, the handling of a record is at its
\* end with the first phase of the last sample moved on by an accepted alt call,
\* from a cursor that an earlier record had already moved.
C34_Witness ==
    /\ discard_overlaps
    /\ pc = "phase"
    /\ ~(phase_offset < active_phases[Here])
    /\ alt_index[1] > 0
    /\ at_variant[Slot(0)] > 0
    /\ nonvariant_starts[Slot(0)] > at_variant[Slot(0)]

(***************************************************************************)
(* The end of a batch for a sample that is not active.                      *)
(***************************************************************************)
\* the sample about to be finished has no active phase
ClosesInactive == ClosesSample /\ active_phases[Here] = 0
\* the phases the end of the batch finishes for the sample: by its ploidy flag
PhasesDue == IF diploid_region[Here] THEN 2 ELSE 1
\* the genotype of the sample was unphased, empty or invalid at every record handled
NeverActive ==
    \A k \in 1 .. Len(variant_file) :
        isDNA(variant_file[k]) =>
            ParseGenotype(variant_file[k].genotypes[sample_number], TRUE).new_active_phases = 0
\* the fragments the step emits for a slot of the sample, and their visits
NewFragments(k) ==
    {j \in Len(thread_names) + 1 .. Len(thread_names') : thread_names'[j][4] = k}
NewVisits(k) ==
    JoinedFor(all_phase_threads', thread_names', sample_number, k,
              Len(all_phase_threads) + 1)
ReferenceFrom(cursor) == Forward(ReferenceVisits(1, cursor, path_length))

\* C35 as stated: the end of a batch that processed a variant finishes every sample
\* by its ploidy flag, active or not: for a sample without active phase each phase
\* due by the flag emits one fragment, the reference visits from its cursor to the
\* end of the contig; a sample that was never active emits two fragments, each the
\* whole reference path.
C35_InactiveSampleFinished ==
    [][ClosesInactive =>
          /\ \A k \in 0 .. PhasesDue - 1 :
                /\ Cardinality(NewFragments(k)) = 1
                /\ NewVisits(k) # <<>>
                /\ NewVisits(k) = ReferenceFrom(nonvariant_starts[Slot(k)])
          /\ NeverActive =>
                /\ PhasesDue = 2
                /\ \A k \in {0, 1} : NewVisits(k) = Forward(RefNodes)]_vars

\* C35 amended: as above, but a phase whose cursor is at the end of the contig emits
\* nothing at the end of the batch; a phase whose cursor is before the end emits one
\* fragment, the reference visits from the cursor to the end of the contig.  The
\* phases beyond those due by the flag emit nothing.
C35_InactiveSampleFinishedFromCursor ==
    [][ClosesInactive =>
          /\ variants_processed > 0
          /\ \A k \in 0 .. PhasesDue - 1 :
                LET cursor == nonvariant_starts[Slot(k)]
                IN IF cursor < path_length
                   THEN /\ Cardinality(NewFragments(k)) = 1
                        /\ NewVisits(k) # <<>>
                        /\ NewVisits(k) = ReferenceFrom(cursor)
                   ELSE NewFragments(k) = {}
          /\ \A k \in PhasesDue .. 1 : NewFragments(k) = {}
          /\ NeverActive =>
                /\ PhasesDue = 2
                /\ \A k \in {0, 1} :
                      /\ FragmentsOf(sample_number, k) = {}
                      /\ NewVisits(k) = Forward(RefNodes)]_vars

\* C35 witness: the end of the batch has finished a sample that was closed into the
\* inactive state at the last record: each of its two phases has the fragment of
\* that close and a trailing fragment, which begins after the start of the contig
\* and ends with the last visit of the reference path.
C35_Witness ==
    /\ pc = "finish_sample"
    /\ sample_number > batch_start
    /\ ParseGenotype(variant_file[1].genotypes[sample_number - 1], TRUE).new_active_phases = 2
    /\ ParseGenotype(variant_file[3].genotypes[sample_number - 1], TRUE).new_active_phases = 0
    /\ \A k \in {0, 1} :
          LET mine == FragmentsOf(sample_number - 1, k)
              trailing == Joined(<<all_phase_threads[MaxOf(mine)]>>)
          IN /\ Cardinality(mine) = 2
             /\ trailing # Forward(RefNodes)
             /\ IsSuffix(trailing, Forward(RefNodes))

(***************************************************************************)
(* The second phase slot of a haploid sample.                               *)
(***************************************************************************)
\* the samples of the batch, as positions in the per-sample arrays
SamplesOfBatch == 0 .. batch_limit - batch_start - 1
\* the names the step adds for the second slot of a sample of the batch
NewNamesOfSecondSlot(s) ==
    {j \in Len(thread_names) + 1 .. Len(thread_names') :
        /\ thread_names'[j][2] = sample_names[batch_start + s]
        /\ thread_names'[j][4] = 1}

\* C36: in every state of a batch in which a sample is flagged haploid the buffer of
\* its slot 1 is empty; a step taken while the sample is flagged haploid appends no
\* visit to its slot 1 and emits no fragment for it; and the end of the batch makes
\* one phase active for a haploid sample and closes that one only.
C36_HaploidLeavesSecondSlot ==
    /\ [](WithinBatch =>
             \A s \in SamplesOfBatch :
                ~diploid_region[s] => active_phase_threads[2 * s + 1] = <<>>)
    /\ [][WithinBatch =>
             \A s \in SamplesOfBatch :
                ~diploid_region[s] =>
                    /\ appended'[2 * s + 1] = appended[2 * s + 1]
                    /\ NewNamesOfSecondSlot(s) = {}]_vars
    /\ [][ClosesSample /\ ~diploid_region[Here] =>
             /\ active_phases'[Here] = 1
             /\ \A j \in Len(thread_names) + 1 .. Len(thread_names') :
                   thread_names'[j][4] = 0]_vars

\* C36 witness: the end of the batch has finished a haploid sample whose slot 1 had
\* emitted a fragment when the sample changed from diploid to haploid: the fragment
\* emitted last for the sample is one of slot 0, and slot 1 has that one fragment.
C36_Witness ==
    /\ pc = "finish_sample"
    /\ sample_number > batch_start
    /\ ~diploid_region[sample_number - 1 - batch_start]
    /\ Cardinality(FragmentsOf(sample_number - 1, 1)) = 1
    /\ FragmentsOf(sample_number - 1, 0) # {}
    /\ MaxOf(FragmentsOf(sample_number - 1, 0)) = Len(thread_names)
    /\ MaxOf(FragmentsOf(sample_number - 1, 1)) < Len(thread_names) - 1

(***************************************************************************)
(* An alt call without a path for the alt.                                  *)
(***************************************************************************)
\* the phase about to be handled calls an alt that has no path, at a site whose
\* reference allele has a path with nodes
CallsAltWithoutPath ==
    /\ CallsAlt
    /\ <<NameHere, AltHere>> \notin DOMAIN alt_paths
    /\ HasPath(<<NameHere, 0>>)
\* what the step gives the phase when the call is taken as a zero-length allele: the
\* reference visits from its cursor up to first_ref_base and nothing else, with the
\* cursor left at first_ref_base plus the lengths of the nodes of the reference
\* allele; the reference visit appended next is the one at that cursor, and the
\* append closes the buffer exactly when the graph has no edge to it from the
\* buffer's last visit
TakenAsZeroLength ==
    LET i == Slot(phase_offset)
        after == AlleleHere(Captured)
        buffer == after.threads[i]
        cursor == after.starts[i]
        extended == append_reference_mappings_until(after, first_phase + i, path_length)
    IN /\ appended'[i] = appended[i]
              \o Forward(ReferenceVisits(1, nonvariant_starts[i], SiteHere.first_ref_base))
       /\ nonvariant_starts'[i] = SiteHere.last_ref_base
       /\ SiteHere.last_ref_base = SiteHere.first_ref_base + PathLength(PathHere(0))
       /\ SiteHere.last_ref_base > SiteHere.first_ref_base
       /\ cursor = nonvariant_starts'[i] /\ buffer = active_phase_threads'[i]
       /\ cursor < path_length =>
             /\ extended.log[i][Len(after.log[i]) + 1] = NextReference(cursor)
             /\ Len(extended.names) = Len(after.names) +
                   (IF buffer # <<>>
                       /\ ~has_edge(edges, buffer[Len(buffer)], NextReference(cursor))
                    THEN 1 ELSE 0)
\* the step leaves the phase as it found it
PhaseUntouched ==
    LET i == Slot(phase_offset)
    IN /\ appended'[i] = appended[i]
       /\ nonvariant_starts'[i] = nonvariant_starts[i]
       /\ active_phase_threads'[i] = active_phase_threads[i]
       /\ thread_names' = thread_names

\* C37 as stated: the phase step of an alt call whose alt has no path, at a site whose
\* reference allele has a path with nodes, takes the call as a zero-length allele.
C37_AbsentAltAccepted ==
    [][CallsAltWithoutPath => TakenAsZeroLength]_vars

\* C37 amended: the call is taken as a zero-length allele unless overlaps are
\* discarded and the cursor of the phase is beyond first_ref_base; then the step
\* leaves the phase as it found it.
C37_AbsentAltAcceptedUnlessOverlap ==
    [][CallsAltWithoutPath =>
          IF nonvariant_starts[Slot(phase_offset)] <= SiteHere.first_ref_base
             \/ ~discard_overlaps
          THEN TakenAsZeroLength
          ELSE PhaseUntouched]_vars

\* C37 witness: the first phase of a sample has taken the deletion d1 as a
\* zero-length allele: it holds node 1, its cursor is past the deleted nodes, and the
\* graph has no edge from node 1 to node 253, the reference node at the cursor.
C37_Witness ==
    /\ pc = "phase"
    /\ phase_offset >= 1
    /\ NameHere = "d1"
    /\ alt_index[1] > 0
    /\ active_phase_threads[Slot(0)] = <<Encode(1, FALSE)>>
    /\ nonvariant_starts[Slot(0)] = 6
    /\ NextReference(6) = Encode(253, FALSE)
    /\ ~has_edge(edges, Encode(1, FALSE), Encode(253, FALSE))

(***************************************************************************)
(* Records that are not DNA.                                                *)
(***************************************************************************)
\* the record about to be read has a character other than A, C, G, T in its
\* reference allele or in one of its alts
NotDNANext == pc = "read" /\ next_record <= Len(variant_file) /\ ~isDNA(variant_file[next_record])
NoDNARecord == \A k \in 1 .. Len(variant_file) : ~isDNA(variant_file[k])
DNARecordsBefore(k) == {j \in 1 .. k - 1 : isDNA(variant_file[j])}

\* C38: the step on a record that is not DNA changes no phase state and nothing of
\* the sinks, and does not count the record; while the records of a batch are read
\* the count of processed variants is the number of DNA records read; and in a run
\* on a contig without DNA record no buffer, sink or name list ever holds anything.
C38_NonDNASkipped ==
    /\ [][NotDNANext =>
             /\ UNCHANGED <<batch_state, output, variants_processed, entry>>
             /\ next_record' = next_record + 1]_vars
    /\ [](pc = "read" => variants_processed = Cardinality(DNARecordsBefore(next_record)))
    /\ [](NoDNARecord =>
             /\ FragmentsInSinks = 0
             /\ thread_names = <<>> /\ xg_threads = <<>> /\ xg_thread_names = <<>>
             /\ Allocated =>
                   \A i \in PhasesOfBatch :
                       active_phase_threads[i] = <<>> /\ saved_phase_paths[i] = 0)

\* C38 witness: the run on a contig of two records, one with an N in its alt and one
\* with an N in its reference allele, has read them and is over, with nothing
\* emitted.
C38_Witness ==
    /\ pc = "saved"
    /\ Len(variant_file) = 2
    /\ NoDNARecord
    /\ ~allATGC(variant_file[2].ref)
    /\ ~allATGC(variant_file[1].alt[1])
    /\ Len(batches) >= 1
    /\ variants_processed = 0
    /\ thread_names = <<>>

(***************************************************************************)
(* The node-length cache against the index it stands in front of.           *)
(***************************************************************************)
\* the ids the index has a node for, and those that share a slot with another one
ValidIds == DOMAIN IndexNodeLength
CollidingIds == {id \in ValidIds : \E other \in ValidIds \ {id} :
                                     other % BUFFER_SIZE = id % BUFFER_SIZE}

\* the lengths a sequence of lookups returns, the first of them made on the buffer
RECURSIVE Lookups(_, _)
Lookups(buffer, ids) ==
    IF ids = <<>> THEN <<>>
    ELSE LET got == NodeLengthBuffer(buffer, Head(ids))
         IN <<got.length>> \o Lookups(got.buffer, Tail(ids))

\* the sequences of lookups tried on every buffer the run leaves: one lookup of any
\* node, and three in a row of the nodes that share a slot
LookupSequences ==
    {<<id>> : id \in ValidIds} \cup {<<a, b, c>> : a, b, c \in CollidingIds}

\* C39: in every state of the run, a lookup of any node of the index on the run's
\* node-length cache, and every lookup of a sequence of three lookups of nodes that
\* share one slot of the 251-entry table, returns the length the index has for the
\* node; and every slot the run has written holds a node of that slot with the
\* index's length for it.
C39_CacheTransparent ==
    /\ \A ids \in LookupSequences :
           Lookups(node_length, ids) = [k \in 1 .. Len(ids) |-> IndexNodeLength[ids[k]]]
    /\ \A h \in DOMAIN node_length :
           /\ node_length[h].first \in ValidIds
           /\ node_length[h].first % BUFFER_SIZE = h
           /\ node_length[h].second = IndexNodeLength[node_length[h].first]

\* C39 witness: the run is over and its last lookup in the slot of node 2 was of node
\* 253, so that a lookup of node 2 or of the longer node 504 finds the slot taken by
\* another node; the lookups of 2, 504 and 253 in a row return their three lengths.
C39_Witness ==
    /\ pc = "saved"
    /\ 2 \in DOMAIN node_length
    /\ node_length[2].first = 253
    /\ NodeLengthBuffer(node_length, 2).buffer[2].first = 2
    /\ Lookups(node_length, <<2, 504, 253>>) = <<1, 2, 1>>

(***************************************************************************)
(* The indices into the arrays of the batch.                                *)
(***************************************************************************)
\* the states in which the sample loops of lines 724 and 997 are inside their body
InSampleLoop ==
    \/ pc = "sample" /\ sample_number < batch_limit
    \/ pc = "phase"
    \/ pc = "finish_sample" /\ sample_number < batch_limit

\* the offsets of the phase slots the code may index at the current sample: the forced
\* close (lines 769-790) and the phase loop (line 809) go up to the sample's count of
\* active phases, lines 801-803 and the batch end (lines 998-1005) take both slots
PhaseOffsetsUsed ==
    IF pc = "phase" THEN 0 .. active_phases[Here] - 1 ELSE {0, 1}

\* C40: whenever the arrays of the batch are allocated, the per-phase arrays have
\* 2 * samples_in_batch entries and the per-sample arrays samples_in_batch entries;
\* and in every state inside the body of a loop over the samples of a batch, the
\* last and shorter batch included, the index sample_number - batch_start of the
\* per-sample arrays is in [0, samples_in_batch) and each index
\* 2 * sample_number + phase_offset - first_phase of the per-phase arrays, line 783's
\* and line 801's included, is in [0, 2 * samples_in_batch).
C40_IndicesInRange ==
    /\ Allocated =>
           /\ DOMAIN active_phase_threads = PhasesOfBatch
           /\ DOMAIN saved_phase_paths = PhasesOfBatch
           /\ DOMAIN nonvariant_starts = PhasesOfBatch
           /\ DOMAIN active_phases = 0 .. samples_in_batch - 1
           /\ DOMAIN diploid_region = 0 .. samples_in_batch - 1
           /\ \A s \in DOMAIN active_phases : active_phases[s] \in 0 .. 2
    /\ InSampleLoop =>
           /\ Here \in 0 .. samples_in_batch - 1
           /\ 2 * sample_number - first_phase \in PhasesOfBatch
           /\ \A k \in PhaseOffsetsUsed : Slot(k) \in PhasesOfBatch

\* C40 witness: the last batch is shorter than the batch size and is not the first,
\* and the phase loop is at the second phase of the last sample of the range.
C40_Witness ==
    /\ pc = "phase"
    /\ batch_start > sample_range[1]
    /\ batch_limit = sample_range[2]
    /\ batch_limit - batch_start < samples_in_batch
    /\ sample_number = batch_limit - 1
    /\ phase_offset = 1
    /\ active_phases[Here] = 2

====
